---- MODULE Spec2Model ----
(***************************************************************************)
(* Session state engine of SPlot (src/Splot2.py): UndoManager, the         *)
(* get_state / set_state snapshot pair, XLinkManager with the cross-page   *)
(* x-range broadcast, LegendManager configuration and AutoscaleCalculator. *)
(*                                                                         *)
(* Python objects that are shared by reference (the dicts axis_link_ids,   *)
(* legend configs and file_data_map) live in heaps and are named by their  *)
(* index there, so that two holders of one dict see each other's writes.   *)
(*                                                                         *)
(* Numbers.  Raw samples are integers.  Factors, offsets and rendered line *)
(* data are counted in tenths (FUnit).  The values pooled by autoscale are *)
(* counted in hundredths, and autoscale limits in 1/20000 (LUnit = 200 per *)
(* hundredth): with the 5% margin and the half-integer mantissas every     *)
(* value the calculator produces is then an exact integer.                 *)
(***************************************************************************)
EXTENDS Integers, Sequences, FiniteSets, TLC

\* Python's None where a string or a dict key is expected
None == "None"

\* Python's None where a number is expected (no sample or bound is this small)
NoneNum == 0 - 999999

\* dict.get(key, default)
Get(d, key, default) == IF key \in DOMAIN d THEN d[key] ELSE default

Abs(n) == IF n < 0 THEN 0 - n ELSE n

RECURSIVE Pow10(_)
Pow10(e) == IF e <= 0 THEN 1 ELSE 10 * Pow10(e - 1)

SetMin(S) == CHOOSE m \in S : \A n \in S : m <= n

SetMax(S) == CHOOSE m \in S : \A n \in S : m >= n

\* a factor of 1.0, in tenths
FUnit == 10

\* limit units per hundredth: a limit is counted in 1/20000
LUnit == 200

\* a sample that is not finite (NaN or infinity)
NaN == 0 - 999998

\* calculate_limits returning None
NoLimits == <<>>

(***************************************************************************)
(* AutoscaleCalculator                                                     *)
(***************************************************************************)

\* nice_numbers [1, 1.5, 2, 2.5, 3, 4, 5, 6, 8, 10], counted in halves
nice_numbers == <<2, 3, 4, 5, 6, 8, 10, 12, 16, 20>>

\* order = floor(log10(abs_val)), as the exponent e with
\* 1 * 10^order = 2 * 10^e limit units (order = e - 4); abs_val >= 2
RECURSIVE OrderFrom(_, _)
OrderFrom(abs_val, e) ==
    IF 2 * Pow10(e + 1) <= abs_val THEN OrderFrom(abs_val, e + 1) ELSE e

\* the round_down loop: keep the last nice number <= normalized, stop at
\* the first one above it
RECURSIVE ScanDown(_, _, _, _)
ScanDown(abs_val, e, i, selected) ==
    IF i > Len(nice_numbers) THEN selected
    ELSE IF nice_numbers[i] * Pow10(e) <= abs_val
         THEN ScanDown(abs_val, e, i + 1, nice_numbers[i])
         ELSE selected

\* the round-up loop: the first nice number >= normalized, else the last one
RECURSIVE ScanUp(_, _, _, _)
ScanUp(abs_val, e, i, selected) ==
    IF i > Len(nice_numbers) THEN selected
    ELSE IF nice_numbers[i] * Pow10(e) >= abs_val
         THEN nice_numbers[i]
         ELSE ScanUp(abs_val, e, i + 1, selected)

\* _round_to_nice that hands the value back as it is
RoundToNiceUnrounded(value, round_down) == value

RoundToNice(value, round_down) ==
    IF value = 0 THEN 0
    ELSE LET sign == IF value < 0 THEN 0 - 1 ELSE 1
             abs_val == Abs(value)
             e == OrderFrom(abs_val, 0)
             selected == IF round_down
                         THEN ScanDown(abs_val, e, 1, nice_numbers[1])
                         ELSE ScanUp(abs_val, e, 1, nice_numbers[Len(nice_numbers)])
         IN  sign * selected * Pow10(e)

\* the rendered line data used although the trace has raw samples
TransformedFromLine(trace, axis_dir) ==
    LET data == IF axis_dir = "x" THEN trace.line.xdata ELSE trace.line.ydata
        factor == IF axis_dir = "x" THEN Get(trace, "x_factor", FUnit)
                                    ELSE Get(trace, "y_factor", FUnit)
        offset == IF axis_dir = "x" THEN Get(trace, "x_offset", 0)
                                    ELSE Get(trace, "y_offset", 0)
    IN  {data[i] * factor + offset * FUnit :
            i \in {j \in 1..Len(data) : data[j] # NaN}}

\* data * factor + offset of one trace, the finite values only, in
\* hundredths; data is the raw samples when the trace has them, else the
\* rendered line data (which is counted in tenths)
Transformed(trace, axis_dir) ==
    LET raw_key == IF axis_dir = "x" THEN "raw_x" ELSE "raw_y"
        has_raw == raw_key \in DOMAIN trace
        data == IF has_raw THEN trace[raw_key]
                ELSE (IF axis_dir = "x" THEN trace.line.xdata ELSE trace.line.ydata)
        data_unit == IF has_raw THEN FUnit ELSE 1
        factor == IF axis_dir = "x" THEN Get(trace, "x_factor", FUnit)
                                    ELSE Get(trace, "y_factor", FUnit)
        offset == IF axis_dir = "x" THEN Get(trace, "x_offset", 0)
                                    ELSE Get(trace, "y_offset", 0)
    IN  {data[i] * data_unit * factor + offset * FUnit :
            i \in {j \in 1..Len(data) : data[j] # NaN}}

\* all_values, as a set: only its minimum and maximum are used;
\* a trace without a line is skipped
PooledValues(traces_list, axis_dir) ==
    UNION {Transformed(traces_list[i], axis_dir) :
              i \in {j \in 1..Len(traces_list) : "line" \in DOMAIN traces_list[j]}}

\* calculate_limits: None, or <<nice_min, nice_max>> in limit units
CalculateLimits(traces_list, axis_dir) ==
    LET all_values == PooledValues(traces_list, axis_dir)
    IN  IF all_values = {} THEN NoLimits
        ELSE LET min_val == SetMin(all_values)
                 max_val == SetMax(all_values)
                 span == (max_val - min_val) * (LUnit \div 20)
                 margin == IF span = 0
                           THEN (IF min_val # 0
                                 THEN Abs(min_val) * (LUnit \div 10)
                                 ELSE FUnit * FUnit * LUnit)
                           ELSE span
             IN  <<RoundToNice(min_val * LUnit - margin, TRUE),
                   RoundToNice(max_val * LUnit + margin, FALSE)>>

(***************************************************************************)
(* The external DataSource: what the importers read from a path            *)
(***************************************************************************)

\* the paths the user can pick in a file dialog
Paths == {"/a/a.csv", "/b/a.csv", "/c/bad.csv"}

\* os.path.basename
Basename(p) ==
    CASE p = "/a/a.csv" -> "a.csv"
      [] p = "/b/a.csv" -> "a.csv"
      [] p = "/t/ramp.csv" -> "ramp.csv"
      [] p = "/t/wide.csv" -> "wide.csv"
      [] p = "/r1/log.csv" -> "log.csv"
      [] p = "/r2/log.csv" -> "log.csv"
      [] p = "/r2/aux.csv" -> "aux.csv"
      [] OTHER -> "bad.csv"

\* the datasets behind the paths: the index coordinate and the data
\* variables; "/b/a.csv" is a longer recording with the same file name
Dataset(id) ==
    CASE id = "d1" -> [index |-> <<0, 1>>, vars |-> [v |-> <<0, 20>>]]
      [] id = "d3" -> [index |-> <<0, 1, 2, 3, 4>>, vars |-> [v |-> <<1, 2, 3, 4, 5>>]]
      [] id = "d4" -> [index |-> <<0, 1>>, vars |-> [v |-> <<0, 20000>>]]
      [] id = "d5" -> [index |-> <<0, 1>>, vars |-> [v |-> <<1, 2>>, u |-> <<3, 4>>]]
      [] id = "d6" -> [index |-> <<0, 1, 2>>, vars |-> [v |-> <<5, 6, 7>>]]
      [] id = "d7" -> [index |-> <<0, 1>>, vars |-> [u |-> <<8, 9>>]]
      [] OTHER     -> [index |-> <<0, 1, 2>>, vars |-> [v |-> <<0 - 19, 0, 5>>]]

\* import_file: (success, dataset); "/c/bad.csv" cannot be decoded
ImportFile(p) ==
    CASE p = "/a/a.csv" -> [success |-> TRUE, ds |-> "d1"]
      [] p = "/b/a.csv" -> [success |-> TRUE, ds |-> "d2"]
      [] p = "/t/ramp.csv" -> [success |-> TRUE, ds |-> "d3"]
      [] p = "/t/wide.csv" -> [success |-> TRUE, ds |-> "d4"]
      [] p = "/r1/log.csv" -> [success |-> TRUE, ds |-> "d5"]
      [] p = "/r2/log.csv" -> [success |-> TRUE, ds |-> "d6"]
      [] p = "/r2/aux.csv" -> [success |-> TRUE, ds |-> "d7"]
      [] OTHER -> [success |-> FALSE, ds |-> None]

(***************************************************************************)
(* Program state                                                           *)
(***************************************************************************)

VARIABLES
    file_data_map,   \* SPlotApp.file_data_map: a reference into fileHeap
    current_file,    \* SPlotApp.current_file
    pages,           \* the PageCanvas widgets of tab_widget, in tab order
    cur,             \* tab_widget.currentIndex()
    undo_stack,      \* UndoManager.undo_stack
    redo_stack,      \* UndoManager.redo_stack
    is_restoring,    \* UndoManager.is_restoring
    fileHeap,        \* the file registry dicts: name -> {ds, original_path}
    linkHeap,        \* the axis_link_ids dicts: axis index -> link id
    legHeap,         \* the legend config dicts: axis index -> config
    uuid_cnt,        \* the uuid4 values drawn so far
    dm_open,         \* the modal Data Manager dialog is open
    aborted          \* the process was ended by an unhandled exception

progVars == <<file_data_map, current_file, pages, cur, undo_stack, redo_stack,
              is_restoring, fileHeap, linkHeap, legHeap, uuid_cnt, dm_open,
              aborted>>

\* the program state as one value, for the operators that thread it
\* through a handler; raised = an exception is propagating; draws = the
\* canvas.draw() requests update_trace and autoscale_axis have issued
World ==
    [file_data_map |-> file_data_map, current_file |-> current_file,
     pages |-> pages, cur |-> cur, undo_stack |-> undo_stack,
     redo_stack |-> redo_stack, is_restoring |-> is_restoring,
     fileHeap |-> fileHeap, linkHeap |-> linkHeap, legHeap |-> legHeap,
     uuid_cnt |-> uuid_cnt, raised |-> FALSE, draws |-> 0]

\* dict operations on a file registry: a sequence of entries in insertion order
FileIndex(files, name) ==
    IF \E i \in 1..Len(files) : files[i].name = name
    THEN CHOOSE i \in 1..Len(files) : files[i].name = name
    ELSE 0

FilesSet(files, name, ds, path) ==
    LET entry == [name |-> name, ds |-> ds, original_path |-> path]
        i == FileIndex(files, name)
    IN  IF i # 0 THEN [files EXCEPT ![i] = entry] ELSE Append(files, entry)

FilesDel(files, name) ==
    LET Keep(e) == e.name # name IN SelectSeq(files, Keep)

\* file_data_map, dereferenced
LiveFiles(w) == w.fileHeap[w.file_data_map]

\* a dict with one key set / one key deleted
DictSet(d, k, v) == [x \in DOMAIN d \cup {k} |-> IF x = k THEN v ELSE d[x]]

DictDel(d, k) == [x \in DOMAIN d \ {k} |-> d[x]]

\* the empty dict
EmptyDict == [x \in {} |-> 0]

\* the keys of a dict of traces in dict order: tids are handed out in
\* increasing order and restored in saved order
RECURSIVE SortedSeq(_)
SortedSeq(S) ==
    IF S = {} THEN <<>>
    ELSE LET m == SetMin(S) IN <<m>> \o SortedSeq(S \ {m})

(***************************************************************************)
(* PageCanvas: traces and autoscale                                        *)
(***************************************************************************)

\* array * factor + offset, a non-finite sample staying non-finite
Scaled(arr, factor, offset) ==
    [i \in 1..Len(arr) |-> IF arr[i] = NaN THEN NaN ELSE arr[i] * factor + offset]

\* np.cumsum
RECURSIVE CumSum(_)
CumSum(arr) ==
    IF Len(arr) <= 1 THEN arr
    ELSE LET front == CumSum(SubSeq(arr, 1, Len(arr) - 1))
         IN  Append(front, front[Len(front)] + arr[Len(arr)])

\* pd.Series(arr).rolling(window=win, center=True).mean() for an odd win: the
\* mean of the win samples around i, undefined where the window reaches over
\* an end or holds an undefined sample.  The arrays drawn have whole means.
Rolling(arr, win) ==
    LET half == (win - 1) \div 2
        RECURSIVE Sum(_, _)
        Sum(lo, hi) == IF lo > hi THEN 0 ELSE arr[lo] + Sum(lo + 1, hi)
    IN  [i \in 1..Len(arr) |->
            IF /\ i - half >= 1 /\ i + half <= Len(arr)
               /\ \A j \in (i - half)..(i + half) : arr[j] # NaN
            THEN Sum(i - half, i + half) \div win
            ELSE NaN]

\* fillna(method='bfill'): an undefined value takes the next defined one and
\* stays undefined when none follows
BackFill(arr) ==
    [i \in 1..Len(arr) |->
        LET later == {j \in i..Len(arr) : arr[j] # NaN}
        IN  IF later = {} THEN NaN ELSE arr[SetMin(later)]]

\* the mov_avg branch of update_trace
MovAvg(arr, win) == BackFill(Rolling(arr, win))

\* the arrays handed to set_data with the scaling applied before the
\* transform
RenderedScaleFirst(t) ==
    LET scaled_y == Scaled(t.raw_y, t.y_factor, t.y_offset)
    IN  [xdata |-> Scaled(t.raw_x, t.x_factor, t.x_offset),
         ydata |-> IF t.transform = "mov_avg"
                   THEN MovAvg(scaled_y, Get(t, "window_size", 5))
                   ELSE IF t.transform = "cumsum" THEN CumSum(scaled_y)
                   ELSE scaled_y]

\* the arrays update_trace hands to set_data: the transform of raw_y, then
\* factor and offset
Rendered(t) ==
    LET ry == IF t.transform = "mov_avg"
              THEN MovAvg(t.raw_y, Get(t, "window_size", 5))
              ELSE IF t.transform = "cumsum" THEN CumSum(t.raw_y)
              ELSE t.raw_y
    IN  [xdata |-> Scaled(t.raw_x, t.x_factor, t.x_offset),
         ydata |-> Scaled(ry, t.y_factor, t.y_offset)]

\* autoscale_axis writing the pair into every trace of the page
AutoscaleAxisWholePage(w, p, ax_idx, axis_dir) ==
    LET pg == w.pages[p]
        on_axis == {tid \in DOMAIN pg.traces : pg.traces[tid].ax_idx = ax_idx}
        order == SortedSeq(on_axis)
        traces_on_axis == [i \in 1..Len(order) |-> pg.traces[order[i]]]
        WithX(t, x_limits) ==
            IF x_limits # NoLimits
            THEN [t EXCEPT !.ax_xmin = x_limits[1], !.ax_xmax = x_limits[2]]
            ELSE t
        WithY(t, y_limits) ==
            IF y_limits # NoLimits
            THEN [t EXCEPT !.ax_ymin = y_limits[1], !.ax_ymax = y_limits[2]]
            ELSE t
        Bound(x_limits, y_limits) ==
            [w EXCEPT !.pages[p].traces =
                [tid \in DOMAIN pg.traces |->
                    WithY(WithX(pg.traces[tid], x_limits), y_limits)],
                      !.draws = @ + 1]
    IN  IF on_axis = {} THEN w
        ELSE Bound(IF axis_dir \in {"x", "both"}
                   THEN CalculateLimits(traces_on_axis, "x") ELSE NoLimits,
                   IF axis_dir \in {"y", "both"}
                   THEN CalculateLimits(traces_on_axis, "y") ELSE NoLimits)

\* autoscale_axis: one pair of limits per direction from all traces on the
\* axis, written into the bound fields of each of them, and canvas.draw()
AutoscaleAxis(w, p, ax_idx, axis_dir) ==
    LET pg == w.pages[p]
        on_axis == {tid \in DOMAIN pg.traces : pg.traces[tid].ax_idx = ax_idx}
        order == SortedSeq(on_axis)
        traces_on_axis == [i \in 1..Len(order) |-> pg.traces[order[i]]]
        WithX(t, x_limits) ==
            IF x_limits # NoLimits
            THEN [t EXCEPT !.ax_xmin = x_limits[1], !.ax_xmax = x_limits[2]]
            ELSE t
        WithY(t, y_limits) ==
            IF y_limits # NoLimits
            THEN [t EXCEPT !.ax_ymin = y_limits[1], !.ax_ymax = y_limits[2]]
            ELSE t
        Bound(x_limits, y_limits) ==
            [w EXCEPT !.pages[p].traces =
                [tid \in DOMAIN pg.traces |->
                    IF tid \in on_axis
                    THEN WithY(WithX(pg.traces[tid], x_limits), y_limits)
                    ELSE pg.traces[tid]],
                      !.draws = @ + 1]
    IN  IF on_axis = {} THEN w
        ELSE Bound(IF axis_dir \in {"x", "both"}
                   THEN CalculateLimits(traces_on_axis, "x") ELSE NoLimits,
                   IF axis_dir \in {"y", "both"}
                   THEN CalculateLimits(traces_on_axis, "y") ELSE NoLimits)

\* update_trace(tid, s).  The rendered arrays are handed to the line and
\* relim() then fails on an x/y pair of different lengths: the exception
\* leaves the trace as updated so far.  It ends with add_legend(), which
\* draws, and canvas.draw().
UpdateTrace(w, p, tid, s) ==
    LET t0 == w.pages[p].traces[tid]
        factor_changed ==
            {"x_factor", "x_offset", "y_factor", "y_offset", "transform"}
                \cap DOMAIN s # {}
        t1 == s @@ t0
        files == LiveFiles(w)
        fi == FileIndex(files, t1.file)
        t2 == IF "x_key" \in DOMAIN s /\ fi # 0
              THEN LET ds == Dataset(files[fi].ds)
                   IN  IF t1.x_key = "index" THEN [t1 EXCEPT !.raw_x = ds.index]
                       ELSE IF t1.x_key \in DOMAIN ds.vars
                            THEN [t1 EXCEPT !.raw_x = ds.vars[t1.x_key]]
                            ELSE t1
              ELSE t1
        line == Rendered(t2)
        new_x == line.xdata
        new_y == line.ydata
        t3 == [t2 EXCEPT !.line = line]
        w3 == [w EXCEPT !.pages[p].traces[tid] = t3]
        mismatch == Len(new_x) # Len(new_y) /\ Len(new_x) # 1 /\ Len(new_y) # 1
        has_xlim == \/ "ax_xmin" \in DOMAIN s \/ "ax_xmax" \in DOMAIN s
                    \/ t3.ax_xmin # NoneNum \/ t3.ax_xmax # NoneNum
        has_ylim == \/ "ax_ymin" \in DOMAIN s \/ "ax_ymax" \in DOMAIN s
                    \/ t3.ax_ymin # NoneNum \/ t3.ax_ymax # NoneNum
        Drawn(w4) == [w4 EXCEPT !.draws = @ + 2]
    IN  IF mismatch THEN [w3 EXCEPT !.raised = TRUE]
        ELSE Drawn(IF factor_changed /\ ~(has_xlim \/ has_ylim)
                   THEN AutoscaleAxis(w3, p, t3.ax_idx, "both")
                   ELSE w3)

\* add_trace with style = None: the defaults; ax_idx beyond the grid falls
\* back to axis 0; the line is plotted from the raw arrays
AddTrace(w, p, x, y, label, file_src, var_key, x_key, ax_idx0) ==
    LET pg == w.pages[p]
        ax_idx == IF ax_idx0 >= pg.rows * pg.cols THEN 0 ELSE ax_idx0
        tid == pg.trace_cnt
        t == [ax_idx |-> ax_idx, label |-> label, file |-> file_src,
              var_key |-> var_key, x_key |-> x_key,
              line |-> [xdata |-> Scaled(x, FUnit, 0), ydata |-> Scaled(y, FUnit, 0)],
              raw_x |-> x, raw_y |-> y, color |-> "C0",
              x_factor |-> FUnit, x_offset |-> 0,
              y_factor |-> FUnit, y_offset |-> 0,
              transform |-> "None",
              ax_xmin |-> NoneNum, ax_xmax |-> NoneNum,
              ax_ymin |-> NoneNum, ax_ymax |-> NoneNum,
              yaxis |-> "left"]
    IN  [w EXCEPT !.pages[p].traces = DictSet(@, tid, t),
                  !.pages[p].trace_cnt = @ + 1]

\* remove_trace
RemoveTrace(w, p, tid) ==
    IF tid \in DOMAIN w.pages[p].traces
    THEN [w EXCEPT !.pages[p].traces = DictDel(@, tid)]
    ELSE w

(***************************************************************************)
(* XLinkManager and LegendManager                                          *)
(***************************************************************************)

\* get_link_id without a link
NoLink == 0

\* XLinkManager.create_group on the dict d: every listed axis gets link_id
RECURSIVE CreateGroup(_, _, _)
CreateGroup(d, ax_indices, link_id) ==
    IF ax_indices = <<>> THEN d
    ELSE CreateGroup(DictSet(d, Head(ax_indices), link_id), Tail(ax_indices), link_id)

\* XLinkManager.remove_from_group
RemoveFromGroup(d, ax_idx) == IF ax_idx \in DOMAIN d THEN DictDel(d, ax_idx) ELSE d

\* XLinkManager.get_link_id
GetLinkId(d, ax_idx) == Get(d, ax_idx, NoLink)

\* PageCanvas.create_xlink_group: the manager's dict is changed in place
CreateXLinkGroup(w, p, ax_indices, link_id) ==
    IF ax_indices = <<>> THEN w
    ELSE LET pg == w.pages[p]
             fresh == link_id = NoLink
             lid == IF fresh THEN w.uuid_cnt + 1 ELSE link_id
         IN  [w EXCEPT !.linkHeap[pg.xlink_mgr] = CreateGroup(@, ax_indices, lid),
                       !.pages[p].axis_link_ids = pg.xlink_mgr,
                       !.uuid_cnt = IF fresh THEN @ + 1 ELSE @]

\* PageCanvas.remove_from_xlink
RemoveFromXLink(w, p, ax_idx) ==
    LET pg == w.pages[p]
    IN  [w EXCEPT !.linkHeap[pg.xlink_mgr] = RemoveFromGroup(@, ax_idx),
                  !.pages[p].axis_link_ids = pg.xlink_mgr]

DefaultLegendCfg == [content |-> "both", loc |-> "best"]

\* LegendManager.__init__
LegendManagerInit(num_axes) == [i \in 0..(num_axes - 1) |-> DefaultLegendCfg]

\* LegendManager.set_config: the configs dict is changed in place
SetConfig(w, p, ax_idx, config) ==
    [w EXCEPT !.legHeap[w.pages[p].legend_mgr] = DictSet(@, ax_idx, config)]

\* LegendManager.get_config
GetConfig(w, p, ax_idx) ==
    Get(w.legHeap[w.pages[p].legend_mgr], ax_idx, DefaultLegendCfg)

(***************************************************************************)
(* SPlotApp: pages and snapshots                                           *)
(***************************************************************************)

\* a tab text: <<"Page", n>> is the default "Page n", <<"Name", k>> a name
\* typed by the user
PageTitle(n) == <<"Page", n>>

\* PageCanvas.__init__: two fresh managers, each with a fresh dict, and the
\* backward-compatibility attributes naming the same dicts
NewPageCanvas(w, rows, cols, title) ==
    LET lref == Len(w.linkHeap) + 1
        gref == Len(w.legHeap) + 1
        pg == [rows |-> rows, cols |-> cols, traces |-> EmptyDict, trace_cnt |-> 0,
               xlink_mgr |-> lref, axis_link_ids |-> lref,
               legend_mgr |-> gref, legend_cfgs |-> gref,
               title |-> title]
    IN  [w EXCEPT !.linkHeap = Append(@, EmptyDict),
                  !.legHeap = Append(@, LegendManagerInit(rows * cols)),
                  !.pages = Append(@, pg),
                  !.cur = IF Len(w.pages) = 0 THEN 0 ELSE @]

\* a trace dict without its line
TraceCopy(t) == [k \in DOMAIN t \ {"line"} |-> t[k]]

\* get_state: the registry dict is copied, each trace dict is copied
\* without its line, the link-id dict and the legend dict of each page are
\* stored as they are (the same objects)
GetState(w) ==
    LET PageData(pg) ==
            [rows |-> pg.rows, cols |-> pg.cols,
             traces |-> [tid \in DOMAIN pg.traces |-> TraceCopy(pg.traces[tid])],
             link_ids |-> pg.axis_link_ids,
             title |-> pg.title,
             legend_cfgs |-> pg.legend_cfgs,
             trace_cnt |-> pg.trace_cnt]
    IN  [state |-> [files |-> Len(w.fileHeap) + 1,
                    pages |-> [i \in 1..Len(w.pages) |-> PageData(w.pages[i])],
                    cur |-> w.cur],
         w |-> [w EXCEPT !.fileHeap = Append(@, LiveFiles(w))]]

\* UndoManager.push.  UndoLimit is the 50 of "len(self.undo_stack) > 50".
UndoLimit == 50

\* push() that keeps appending beyond the limit
PushNoDrop(w, description) ==
    IF w.is_restoring THEN w
    ELSE LET g == GetState(w)
         IN  [g.w EXCEPT !.undo_stack = Append(w.undo_stack,
                                               [state |-> g.state, desc |-> description]),
                         !.redo_stack = <<>>]

\* push() that leaves the redo stack as it is
PushKeepRedo(w, description) ==
    IF w.is_restoring THEN w
    ELSE LET g == GetState(w)
             pushed == Append(w.undo_stack, [state |-> g.state, desc |-> description])
         IN  [g.w EXCEPT !.undo_stack = IF Len(pushed) > UndoLimit
                                        THEN Tail(pushed) ELSE pushed]

\* push() without the is_restoring test
PushUnguarded(w, description) ==
    LET g == GetState(w)
        pushed == Append(w.undo_stack, [state |-> g.state, desc |-> description])
    IN  [g.w EXCEPT !.undo_stack = IF Len(pushed) > UndoLimit
                                   THEN Tail(pushed) ELSE pushed,
                    !.redo_stack = <<>>]

Push(w, description) ==
    IF w.is_restoring THEN w
    ELSE LET g == GetState(w)
             pushed == Append(w.undo_stack, [state |-> g.state, desc |-> description])
         IN  [g.w EXCEPT !.undo_stack = IF Len(pushed) > UndoLimit
                                        THEN Tail(pushed) ELSE pushed,
                         !.redo_stack = <<>>]

\* add_page_direct
AddPageDirect(w, r, c, push) ==
    LET AddTab(w1) == NewPageCanvas(w1, r, c, PageTitle(Len(w1.pages) + 1))
    IN  AddTab(IF push THEN Push(w, "Add New Page") ELSE w)

\* the loop of set_state over the traces of page p: each trace dict is
\* copied, given a new empty line and passed through update_trace
RECURSIVE RestoreTraces(_, _, _, _)
RestoreTraces(w, p, traces_cfg, tids) ==
    IF w.raised \/ tids = <<>> THEN w
    ELSE LET tid == Head(tids)
             t_cfg == traces_cfg[tid]
             t_full == t_cfg @@ [line |-> [xdata |-> <<>>, ydata |-> <<>>]]
             w1 == [w EXCEPT !.pages[p].traces = DictSet(@, tid, t_full)]
         IN  RestoreTraces(UpdateTrace(w1, p, tid, t_cfg), p, traces_cfg, Tail(tids))

\* the loop of set_state over state['pages']: add_page_direct without a
\* push, then the link ids, the legend configs, the counter and the traces
RECURSIVE RestorePages(_, _)
RestorePages(w, pages_data) ==
    IF w.raised \/ pages_data = <<>> THEN w
    ELSE LET pd_ == Head(pages_data)
             p == Len(w.pages) + 1
             FillPage(w1) == [w1 EXCEPT !.pages[p].title = pd_.title,
                                        !.pages[p].xlink_mgr = pd_.link_ids,
                                        !.pages[p].axis_link_ids = pd_.link_ids,
                                        !.pages[p].legend_cfgs = pd_.legend_cfgs,
                                        !.pages[p].trace_cnt = pd_.trace_cnt,
                                        !.pages[p].traces = EmptyDict]
         IN  RestorePages(
                 RestoreTraces(FillPage(AddPageDirect(w, pd_.rows, pd_.cols, FALSE)),
                               p, pd_.traces, SortedSeq(DOMAIN pd_.traces)),
                 Tail(pages_data))

\* set_state: file_data_map becomes the snapshot's registry dict itself,
\* the file combo is refilled (which selects its first entry), the tabs are
\* rebuilt and the saved tab is selected
SetState(w, state) ==
    LET files == w.fileHeap[state.files]
        w1 == [w EXCEPT !.file_data_map = state.files,
                        !.current_file =
                            IF Len(files) > 0 THEN files[1].name
                            ELSE IF Len(LiveFiles(w)) > 0 THEN "" ELSE @,
                        !.pages = <<>>,
                        !.cur = 0 - 1]
        SelectSaved(w2) ==
            IF w2.raised THEN w2
            ELSE IF state.cur < Len(w2.pages) /\ state.cur >= 0
                 THEN [w2 EXCEPT !.cur = state.cur]
                 ELSE w2
    IN  SelectSaved(RestorePages(w1, state.pages))

(***************************************************************************)
(* UndoManager                                                             *)
(***************************************************************************)

\* undo without the test of the stack: pop() of the empty list raises
UndoUnguarded(w) ==
    IF w.undo_stack = <<>>
    THEN LET Saved(g) ==
                 [g.w EXCEPT !.redo_stack = Append(@, [state |-> g.state, desc |-> "Undo"]),
                             !.raised = TRUE]
         IN  Saved(GetState([w EXCEPT !.is_restoring = TRUE]))
    ELSE LET Saved(g) ==
                 [g.w EXCEPT !.redo_stack = Append(@, [state |-> g.state, desc |-> "Undo"])]
             prev == w.undo_stack[Len(w.undo_stack)]
             Popped(w1) == [w1 EXCEPT !.undo_stack = SubSeq(@, 1, Len(@) - 1)]
             Restored(w3) == IF w3.raised THEN w3 ELSE [w3 EXCEPT !.is_restoring = FALSE]
         IN  Restored(SetState(Popped(Saved(GetState([w EXCEPT !.is_restoring = TRUE]))),
                               prev.state))

\* undo: an exception of set_state leaves is_restoring set
Undo(w) ==
    IF w.undo_stack = <<>> THEN w
    ELSE LET Saved(g) ==
                 [g.w EXCEPT !.redo_stack = Append(@, [state |-> g.state, desc |-> "Undo"])]
             prev == w.undo_stack[Len(w.undo_stack)]
             Popped(w1) == [w1 EXCEPT !.undo_stack = SubSeq(@, 1, Len(@) - 1)]
             Restored(w3) == IF w3.raised THEN w3 ELSE [w3 EXCEPT !.is_restoring = FALSE]
         IN  Restored(SetState(Popped(Saved(GetState([w EXCEPT !.is_restoring = TRUE]))),
                               prev.state))

\* redo
Redo(w) ==
    IF w.redo_stack = <<>> THEN w
    ELSE LET Saved(g) ==
                 [g.w EXCEPT !.undo_stack = Append(@, [state |-> g.state, desc |-> "Redo"])]
             nxt == w.redo_stack[Len(w.redo_stack)]
             Popped(w1) == [w1 EXCEPT !.redo_stack = SubSeq(@, 1, Len(@) - 1)]
             Restored(w3) == IF w3.raised THEN w3 ELSE [w3 EXCEPT !.is_restoring = FALSE]
         IN  Restored(SetState(Popped(Saved(GetState([w EXCEPT !.is_restoring = TRUE]))),
                               nxt.state))

\* restore_from_history
RestoreFromHistory(w, index) ==
    IF index < 0 \/ index >= Len(w.undo_stack) THEN w
    ELSE LET target == w.undo_stack[index + 1]
             Restored(w1) == IF w1.raised THEN w1 ELSE [w1 EXCEPT !.is_restoring = FALSE]
         IN  Restored(SetState([w EXCEPT !.is_restoring = TRUE], target.state))

(***************************************************************************)
(* SPlotApp and the dialogs: the handlers of the user actions              *)
(***************************************************************************)

\* the tab that currentWidget() returns, 0 when there is none
CurrentPage(w) == IF w.cur >= 0 /\ w.cur < Len(w.pages) THEN w.cur + 1 ELSE 0

\* rename_tab, the dialog accepted with a non-empty name
RenameTab(w, index, new_name) ==
    LET w1 == Push(w, "Rename Page")
    IN  [w1 EXCEPT !.pages[index + 1].title = new_name]

\* load_dataset_internal: the registry dict is changed in place
LoadDatasetInternal(w, p, ds) ==
    LET f == Basename(p)
    IN  [w EXCEPT !.fileHeap[w.file_data_map] = FilesSet(@, f, ds, p),
                  !.current_file = f]

\* import_data, a path chosen: the push comes before the import is tried
ImportData(w, p) ==
    LET w1 == Push(w, "Import Data")
        r == ImportFile(p)
    IN  IF ~r.success THEN w1 ELSE LoadDatasetInternal(w1, p, r.ds)

\* the loop of plot_data over final_list
RECURSIVE PlotLabels(_, _, _, _, _, _)
PlotLabels(w, p, fname, labels, xk, ax_idx) ==
    IF labels = <<>> THEN w
    ELSE LET files == LiveFiles(w)
             ds == Dataset(files[FileIndex(files, fname)].ds)
             var == Head(labels)
             xd_t == IF xk # "index" /\ xk \in DOMAIN ds.vars
                     THEN ds.vars[xk] ELSE ds.index
             w1 == AddTrace(w, p, xd_t, ds.vars[var], var, fname, var, xk, ax_idx)
         IN  PlotLabels(w1, p, fname, Tail(labels), xk, ax_idx)

\* plot_data: the push comes first, then the early return without a
\* dataset or a page, then the traces and the autoscale of the target axis
PlotData(w, labels, xk, ax_idx) ==
    LET w1 == Push(w, "Plot Data")
        p == CurrentPage(w1)
        has_ds == FileIndex(LiveFiles(w1), w1.current_file) # 0
    IN  IF ~has_ds \/ p = 0 THEN w1
        ELSE AutoscaleAxis(PlotLabels(w1, p, w1.current_file, labels, xk, ax_idx),
                           p, ax_idx, "both")

\* open_legend_settings, the dialog accepted: no push
OpenLegendSettings(w, idx, config) == SetConfig(w, CurrentPage(w), idx, config)

\* open_data_manager: one push, then the modal dialog
OpenDataManager(w) == Push(w, "Open Data Manager")

\* xlink_selected: one fresh link id for the axes of all selected traces
RECURSIVE XLinkRows(_, _, _)
XLinkRows(w, sel, link_id) ==
    IF sel = <<>> THEN w
    ELSE LET p == Head(sel)[1]
             tid == Head(sel)[2]
             w1 == IF tid \in DOMAIN w.pages[p].traces
                   THEN CreateXLinkGroup(w, p, <<w.pages[p].traces[tid].ax_idx>>, link_id)
                   ELSE w
         IN  XLinkRows(w1, Tail(sel), link_id)

XLinkSelected(w, sel) ==
    IF sel = <<>> THEN w
    ELSE XLinkRows([w EXCEPT !.uuid_cnt = @ + 1], sel, w.uuid_cnt + 1)

\* unlink_selected
RECURSIVE UnlinkSelected(_, _)
UnlinkSelected(w, sel) ==
    IF sel = <<>> THEN w
    ELSE LET p == Head(sel)[1]
             tid == Head(sel)[2]
             w1 == IF tid \in DOMAIN w.pages[p].traces
                   THEN RemoveFromXLink(w, p, w.pages[p].traces[tid].ax_idx)
                   ELSE w
         IN  UnlinkSelected(w1, Tail(sel))

\* edit_trace_by_id, the dialog accepted with the settings s: no push
EditTraceById(w, tid, s) ==
    IF CurrentPage(w) # 0 /\ tid \in DOMAIN w.pages[CurrentPage(w)].traces
    THEN UpdateTrace(w, CurrentPage(w), tid, s)
    ELSE w

\* autoscale_selected_x / autoscale_selected_y: each selected trace gets
\* the limits of its own samples as explicit bounds
RECURSIVE AutoscaleSelected(_, _, _)
AutoscaleSelected(w, sel, axis_dir) ==
    IF w.raised \/ sel = <<>> THEN w
    ELSE LET p == Head(sel)[1]
             tid == Head(sel)[2]
             Bounds(limits) ==
                 IF axis_dir = "x" THEN [ax_xmin |-> limits[1], ax_xmax |-> limits[2]]
                 ELSE [ax_ymin |-> limits[1], ax_ymax |-> limits[2]]
             Limited(limits) ==
                 IF limits # NoLimits THEN UpdateTrace(w, p, tid, Bounds(limits)) ELSE w
         IN  AutoscaleSelected(Limited(CalculateLimits(<<w.pages[p].traces[tid]>>, axis_dir)),
                               Tail(sel), axis_dir)

\* delete_selected_traces, the confirmation answered Yes
RECURSIVE DeleteSelectedTraces(_, _)
DeleteSelectedTraces(w, sel) ==
    IF sel = <<>> THEN w
    ELSE DeleteSelectedTraces(RemoveTrace(w, Head(sel)[1], Head(sel)[2]), Tail(sel))

\* SPlotApp.remove_file: its own push, then the registry dict is changed in
\* place; the file combo loses the entry and with it the selection
RemoveFile(w, f) ==
    LET w1 == Push(w, "Remove File")
        files == LiveFiles(w1)
    IN  IF FileIndex(files, f) = 0 THEN w1
        ELSE LET rest == FilesDel(files, f)
             IN  [w1 EXCEPT !.fileHeap[w1.file_data_map] = rest,
                            !.current_file =
                                IF @ = f THEN (IF Len(rest) > 0 THEN rest[1].name ELSE "")
                                ELSE @]

\* the loop of reload_data over the traces of page p: a trace of old_f
\* whose var_key is in the dataset gets the new arrays and the new file
\* name; ds[xk] raises KeyError while update_dict is built when the x key
\* is not in the dataset, and nothing catches it
RECURSIVE ReloadTraces(_, _, _, _, _, _)
ReloadTraces(w, p, tids, old_f, new_f, ds) ==
    IF w.raised \/ tids = <<>> THEN w
    ELSE LET tid == Head(tids)
             t == w.pages[p].traces[tid]
             vk == t.var_key
             xk == t.x_key
             update_dict == [raw_y |-> ds.vars[vk],
                             raw_x |-> IF xk = "index" THEN ds.index ELSE ds.vars[xk],
                             file |-> new_f]
             Updated(w1) == UpdateTrace(w1, p, tid, update_dict)
         IN  ReloadTraces(
                 IF t.file # old_f \/ vk \notin DOMAIN ds.vars THEN w
                 ELSE IF xk # "index" /\ xk \notin DOMAIN ds.vars
                      THEN [w EXCEPT !.raised = TRUE]
                      ELSE Updated([w EXCEPT !.pages[p].traces[tid] = update_dict @@ t]),
                 p, Tail(tids), old_f, new_f, ds)

\* reload_data
ReloadData(w, p, old_f, new_f, ds) ==
    ReloadTraces(w, p, SortedSeq(DOMAIN w.pages[p].traces), old_f, new_f, ds)

\* the loop of exchange_data over the pages, from page p on
RECURSIVE ReloadPages(_, _, _, _, _)
ReloadPages(w, p, old_f, new_f, ds) ==
    IF w.raised \/ p > Len(w.pages) THEN w
    ELSE ReloadPages(ReloadData(w, p, old_f, new_f, ds), p + 1, old_f, new_f, ds)

\* exchange_data(old, new_p): nothing is done when the options dialog is
\* cancelled or the import fails; otherwise the old entry leaves the
\* registry and the file combo, the new one is added and every page
\* reloads its traces of the old file
ExchangeData(w, old, new_p, accepted) ==
    LET r == ImportFile(new_p)
        new_f == Basename(new_p)
        files == LiveFiles(w)
        rest == FilesDel(files, old)
        combo_cur == IF w.current_file = old /\ FileIndex(files, old) # 0
                     THEN (IF Len(rest) > 0 THEN rest[1].name ELSE "")
                     ELSE w.current_file
        w1 == [w EXCEPT !.fileHeap[w.file_data_map] = FilesSet(rest, new_f, r.ds, new_p),
                        !.current_file = IF Len(rest) = 0 THEN new_f ELSE combo_cur]
    IN  IF ~accepted \/ ~r.success THEN w
        ELSE ReloadPages(w1, 1, old, new_f, Dataset(r.ds))

\* the loop of set_replace over the selected rows, each with its own
\* options dialog; an exception ends the handler
RECURSIVE ReplaceRows(_, _, _, _)
ReplaceRows(w, rows, path, answers) ==
    IF w.raised \/ rows = <<>> THEN w
    ELSE ReplaceRows(ExchangeData(w, Head(rows), path, Head(answers)),
                     Tail(rows), path, Tail(answers))

\* DataFilesTab.set_replace: no rows or no path, nothing is done
SetReplace(w, rows, path, answers) ==
    IF rows = <<>> \/ path = "" THEN w ELSE ReplaceRows(w, rows, path, answers)

\* what gzip.open and pickle.load find behind a project path: no file, a
\* file that is no gzip stream, a pickled dict with 'files' but without
\* 'pages', a project pickled without compression (the legacy form), and
\* a project saved with compression
ProjectFile(p) ==
    CASE p = "/p/missing.splot" -> "missing"
      [] p = "/p/garbled.splot" -> "garbled"
      [] p = "/p/nopages.splot" -> "no_pages"
      [] p = "/p/legacy.splot" -> "legacy"
      [] OTHER -> "saved"

\* the session stored in a project file: no data files and one empty page,
\* 2x1 in the legacy file and 1x1 in the compressed one
ProjectLayout(p) == IF p = "/p/legacy.splot" THEN <<2, 1>> ELSE <<1, 1>>

\* load_project, a path chosen: the push, then the file is read and
\* set_state applies it; every exception is caught and reported.  Without
\* 'pages' set_state has replaced the registry and cleared the file combo
\* and the tabs when state['pages'] raises KeyError.  gzip.open is the only
\* reader: a file that is no gzip stream, the legacy form included, raises
\* BadGzipFile
LoadProject(w, p) ==
    LET kind == ProjectFile(p)
        l == ProjectLayout(p)
        Loaded(w1) ==
            [w1 EXCEPT !.fileHeap = Append(@, <<>>),
                       !.linkHeap = Append(@, EmptyDict),
                       !.legHeap = Append(@, LegendManagerInit(l[1] * l[2]))]
        Applied(w2) ==
            SetState(w2,
                [files |-> Len(w2.fileHeap),
                 pages |-> IF kind = "no_pages" THEN <<>>
                           ELSE <<[rows |-> l[1], cols |-> l[2], traces |-> EmptyDict,
                                   link_ids |-> Len(w2.linkHeap), title |-> PageTitle(1),
                                   legend_cfgs |-> Len(w2.legHeap), trace_cnt |-> 0]>>,
                 cur |-> IF kind = "no_pages" THEN 0 - 1 ELSE 0])
        Caught(w3) == [w3 EXCEPT !.raised = FALSE]
        Read(w1) == IF kind \in {"missing", "garbled", "legacy"} THEN w1
                    ELSE Caught(Applied(Loaded(w1)))
    IN  Read(Push(w, "Load Project"))

(***************************************************************************)
(* FileHistoryManager and the display groups of XLinkManager               *)
(***************************************************************************)

\* the max_items the FileHistoryManager is constructed with
MaxItems == 3

\* one line of fileLog.txt: f"{timestamp} | {path}\n"
FormatLine(entry) == <<entry.timestamp, " | ", entry.path>>

\* save_history: the file is rewritten, one line per entry
SaveHistory(history) == [i \in 1..Len(history) |-> FormatLine(history[i])]

\* add_entry that keeps the older entry of the path
AddEntryKeepOld(fh, file_path, now) ==
    IF file_path = "" THEN fh
    ELSE LET top == <<[timestamp |-> now, path |-> file_path]>> \o fh.history
             cut == SubSeq(top, 1, IF Len(top) < MaxItems THEN Len(top) ELSE MaxItems)
         IN  [history |-> cut, log |-> SaveHistory(cut)]

\* add_entry(file_path) at the time now, on fh = [history, log]
AddEntry(fh, file_path, now) ==
    IF file_path = "" THEN fh
    ELSE LET Other(h) == h.path # file_path
             top == <<[timestamp |-> now, path |-> file_path]>>
                        \o SelectSeq(fh.history, Other)
             cut == SubSeq(top, 1, IF Len(top) < MaxItems THEN Len(top) ELSE MaxItems)
         IN  [history |-> cut, log |-> SaveHistory(cut)]

\* the loop of _rebuild_groups over the items of the dict, in key order:
\* groups.setdefault(lid, []).append(ax_idx)
RECURSIVE GroupItems(_, _, _)
GroupItems(d, order, groups) ==
    IF order = <<>> THEN groups
    ELSE LET ax_idx == Head(order)
             lid == d[ax_idx]
             at == {k \in 1..Len(groups) : groups[k].lid = lid}
         IN  GroupItems(d, Tail(order),
                 IF at # {}
                 THEN [groups EXCEPT ![CHOOSE k \in at : TRUE].axes = Append(@, ax_idx)]
                 ELSE Append(groups, [lid |-> lid, axes |-> <<ax_idx>>]))

\* _rebuild_groups with a group of its own for every axis
RebuildGroupsPerAxis(d) ==
    LET order == SortedSeq(DOMAIN d)
    IN  [i \in 1..Len(order) |-> <<order[i]>>]

\* XLinkManager._rebuild_groups: list(groups.values())
RebuildGroups(d) ==
    LET groups == GroupItems(d, SortedSeq(DOMAIN d), <<>>)
    IN  [i \in 1..Len(groups) |-> groups[i].axes]

\* str(uuid.uuid4())[:8]: the n-th value drawn is UuidBase + n, apart from
\* the ids a caller passes
UuidBase == 100

\* XLinkManager.create_group on the manager m = [ids, groups, uuid]; a
\* link_id of None draws a uuid
XmCreateGroup(m, ax_indices, link_id) ==
    IF ax_indices = <<>> THEN m
    ELSE LET fresh == link_id = NoLink
             lid == IF fresh THEN UuidBase + m.uuid + 1 ELSE link_id
             ids == CreateGroup(m.ids, ax_indices, lid)
         IN  [ids |-> ids, groups |-> RebuildGroups(ids),
              uuid |-> IF fresh THEN m.uuid + 1 ELSE m.uuid]

\* XLinkManager.remove_from_group on the manager m
XmRemoveFromGroup(m, ax_idx) ==
    IF ax_idx \in DOMAIN m.ids
    THEN [m EXCEPT !.ids = RemoveFromGroup(m.ids, ax_idx),
                   !.groups = RebuildGroups(RemoveFromGroup(m.ids, ax_idx))]
    ELSE m

\* SPlotApp.__init__ and setup_ui: an empty registry, no history, one 1x1 page
InitWorld ==
    AddPageDirect([file_data_map |-> 1, current_file |-> None,
                   pages |-> <<>>, cur |-> 0 - 1,
                   undo_stack |-> <<>>, redo_stack |-> <<>>, is_restoring |-> FALSE,
                   fileHeap |-> << <<>> >>, linkHeap |-> <<>>, legHeap |-> <<>>,
                   uuid_cnt |-> 0, raised |-> FALSE, draws |-> 0],
                  1, 1, FALSE)

(***************************************************************************)
(* Bookkeeping for the properties (not program state)                      *)
(***************************************************************************)

VARIABLES
    lastOp,       \* the handler that ran last
    opCount,      \* handlers run so far
    g_pushRan,    \* the last handler ran a push() that was not suppressed
    g_phase,      \* "acting"/"acted": a pushed action is under way / complete;
                  \* "undone": undo came right after it; "redone": then redo
    g_pushView,   \* the session when the last push() was called
    g_postView,   \* the session when the last pushed action was complete
    g_cleared,    \* the last push() found entries on the redo stack
    g_index,      \* the index passed to restore_from_history by the last handler
    g_pushed,     \* the sessions at every push() that ran, oldest first
    g_consec      \* push()es that ran since the last undo, redo or jump

ghostVars == <<lastOp, opCount, g_pushRan, g_phase, g_pushView, g_postView,
               g_cleared, g_index, g_pushed, g_consec>>

\* the session a user sees on page pg: the link ids the XLinkManager
\* answers with and the legend configs the LegendManager applies
PageView(w, pg) ==
    [rows |-> pg.rows, cols |-> pg.cols, title |-> pg.title,
     traces |-> [tid \in DOMAIN pg.traces |-> TraceCopy(pg.traces[tid])],
     trace_cnt |-> pg.trace_cnt,
     link_ids |-> w.linkHeap[pg.xlink_mgr],
     legend_cfgs |-> w.legHeap[pg.legend_mgr]]

\* the session: file registry, pages and current-page index
View(w) ==
    [files |-> LiveFiles(w),
     pages |-> [i \in 1..Len(w.pages) |-> PageView(w, w.pages[i])],
     cur |-> w.cur]

\* the program variables take the values of w; an exception that left the
\* handler either ends the process (the default exception hook of the Qt
\* binding) or is only reported (a hook installed by the host)
Install(w) ==
    /\ file_data_map' = w.file_data_map
    /\ current_file' = w.current_file
    /\ pages' = w.pages
    /\ cur' = w.cur
    /\ undo_stack' = w.undo_stack
    /\ redo_stack' = w.redo_stack
    /\ is_restoring' = w.is_restoring
    /\ fileHeap' = w.fileHeap
    /\ linkHeap' = w.linkHeap
    /\ legHeap' = w.legHeap
    /\ uuid_cnt' = w.uuid_cnt
    /\ aborted' \in (IF w.raised THEN BOOLEAN ELSE {FALSE})

\* kind: "push" a handler that calls push() first, "dm_open", "dm_op",
\* "dm_push" (remove_file inside the Data Manager), "dm_close", "undo",
\* "redo", "jump", "plain" (no push)
Record(op, kind, w) ==
    LET ran == kind \in {"push", "dm_open", "dm_push"} /\ ~is_restoring
        phase == CASE kind = "push" -> (IF ran THEN "acted" ELSE "none")
                   [] kind = "dm_open" -> (IF ran THEN "acting" ELSE "none")
                   [] kind = "dm_push" -> (IF ran THEN "acting" ELSE g_phase)
                   [] kind = "dm_op" -> g_phase
                   [] kind = "dm_close" -> (IF g_phase = "acting" THEN "acted" ELSE "none")
                   [] kind = "undo" -> (IF g_phase = "acted" THEN "undone" ELSE "none")
                   [] kind = "redo" -> (IF g_phase = "undone" THEN "redone" ELSE "none")
                   [] OTHER -> "none"
    IN  /\ lastOp' = op
        /\ opCount' = opCount + 1
        /\ g_pushRan' = ran
        /\ g_phase' = phase
        /\ g_pushView' = IF ran THEN View(World) ELSE g_pushView
        /\ g_postView' = IF phase = "acted" THEN View(w) ELSE g_postView
        /\ g_cleared' = (ran /\ redo_stack # <<>>)

\* handler op has run and left the session w
Handled(op, kind, w) == Install(w) /\ Record(op, kind, w)

\* the rows of the Data Manager's trace table: (page, tid)
AllRows == UNION {{<<p, tid>> : tid \in DOMAIN pages[p].traces} : p \in 1..Len(pages)}

RECURSIVE RowSeq(_)
RowSeq(S) ==
    IF S = {} THEN <<>>
    ELSE LET r == CHOOSE x \in S : \A y \in S :
                      x[1] < y[1] \/ (x[1] = y[1] /\ x[2] <= y[2])
         IN  <<r>> \o RowSeq(S \ {r})

(***************************************************************************)
(* State of the x-range broadcast and of the autoscale calculation         *)
(***************************************************************************)

VARIABLES
    axes_xlim,       \* per page, per axis: get_xlim() as <<xmin, xmax>>
    updating_xlim,   \* per page: PageCanvas._updating_xlim
    frames,          \* the call stack of the handlers being run
    emits,           \* global_xlim_changed emissions since the last external event
    apply_runs,      \* per page: bodies of apply_global_xlim run since then
    target           \* link id and range of the last change of a linked axis

linkVars == <<axes_xlim, updating_xlim, frames, emits, apply_runs, target>>

VARIABLES
    as_traces,       \* calculate_limits: traces_list
    as_dir,          \* calculate_limits: axis_dir
    as_limits,       \* the value returned
    as_pc            \* "call" before, "done" after the call

autoVars == <<as_traces, as_dir, as_limits, as_pc>>

VARIABLES
    lg_traces,       \* apply_to_axes: the traces, each with the label of its line
    lg_configs,      \* LegendManager.configs: the content mode per axis
    lg_legends,      \* per axis: the legend shown
    lg_calls,        \* calls of apply_to_axes since the configuration was set
    lg_shown         \* the plotting library lists a label that starts with '_'

legendVars == <<lg_traces, lg_configs, lg_legends, lg_calls, lg_shown>>

VARIABLES
    in_rows,         \* set_replace: the file names of the selected rows
    in_path,         \* the path picked in the file dialog of the last handler
    in_answers       \* per selected row: the options dialog was accepted

inputVars == <<in_rows, in_path, in_answers>>

VARIABLES
    fh_history,      \* FileHistoryManager.history: entries {timestamp, path}
    fh_log,          \* the lines of fileLog.txt
    xm_ids,          \* XLinkManager.axis_link_ids of one manager
    xm_groups,       \* XLinkManager.xlink_groups of that manager
    xm_uuid,         \* the uuid4 values that manager has drawn
    xm_arg,          \* the axes passed to the last call of that manager
    pg_draws         \* canvas.draw() requests of the last handler on its page

fhVars == <<fh_history, fh_log>>

xmVars == <<xm_ids, xm_groups, xm_uuid, xm_arg>>

unitVars == <<fhVars, xmVars, pg_draws>>

vars == <<progVars, ghostVars, linkVars, autoVars, legendVars, inputVars, unitVars>>

(***************************************************************************)
(* The user actions: one handler per step                                  *)
(***************************************************************************)

\* tabs per window
MaxPages == 2

\* the layouts offered when a page is added
Layouts == {<<1, 1>>, <<2, 1>>}

\* the names typed when a tab is renamed
TabNames == {<<"Name", 1>>}

\* the configurations chosen in the legend settings dialog
LegendChoices == {[content |-> "file", loc |-> "best"]}

\* g_index when the handler was not restore_from_history
NoIndex == 0 - 2

SessionInit ==
    /\ file_data_map = InitWorld.file_data_map
    /\ current_file = InitWorld.current_file
    /\ pages = InitWorld.pages
    /\ cur = InitWorld.cur
    /\ undo_stack = <<>>
    /\ redo_stack = <<>>
    /\ is_restoring = FALSE
    /\ fileHeap = InitWorld.fileHeap
    /\ linkHeap = InitWorld.linkHeap
    /\ legHeap = InitWorld.legHeap
    /\ uuid_cnt = 0
    /\ dm_open = FALSE
    /\ aborted = FALSE

GhostInit ==
    /\ lastOp = "init"
    /\ opCount = 0
    /\ g_pushRan = FALSE
    /\ g_phase = "none"
    /\ g_pushView = View(InitWorld)
    /\ g_postView = View(InitWorld)
    /\ g_cleared = FALSE
    /\ g_index = NoIndex
    /\ g_pushed = <<>>
    /\ g_consec = 0

\* target when no linked axis was changed
NoTarget == [link_id |-> NoLink, xmin |-> 0, xmax |-> 0]

LinkIdle ==
    /\ axes_xlim = <<>>
    /\ updating_xlim = <<>>
    /\ frames = <<>>
    /\ emits = 0
    /\ apply_runs = <<>>
    /\ target = NoTarget

AutoIdle ==
    /\ as_traces = <<>>
    /\ as_dir = "x"
    /\ as_limits = NoLimits
    /\ as_pc = "idle"

LegendIdle ==
    /\ lg_traces = <<>>
    /\ lg_configs = <<>>
    /\ lg_legends = <<>>
    /\ lg_calls = 0
    /\ lg_shown = FALSE

\* no file dialog answered yet
NoPath == ""

\* the managers checked on their own are as constructed, nothing drawn
UnitIdle ==
    /\ fh_history = <<>> /\ fh_log = <<>>
    /\ xm_ids = EmptyDict /\ xm_groups = <<>> /\ xm_uuid = 0 /\ xm_arg = <<>>
    /\ pg_draws = 0

InputIdle ==
    /\ in_rows = <<>>
    /\ in_path = NoPath
    /\ in_answers = <<>>

Init == SessionInit /\ GhostInit /\ LinkIdle /\ AutoIdle /\ LegendIdle /\ InputIdle /\ UnitIdle

\* the main window takes an action (at most limit handlers per run)
MainReady(limit) == ~aborted /\ ~dm_open /\ opCount < limit

\* the Data Manager, a modal dialog, takes an action
DialogReady(limit) == ~aborted /\ dm_open /\ opCount < limit

\* what a handler of the main window leaves alone
MainFrame == g_index' = NoIndex /\ UNCHANGED <<dm_open, linkVars, autoVars, legendVars, inputVars, unitVars>>

\* the history of push()es is not followed
Untracked == UNCHANGED <<g_pushed, g_consec>>

\* the history of push()es is followed
Tracked ==
    /\ g_pushed' = IF g_pushRan' THEN Append(g_pushed, View(World)) ELSE g_pushed
    /\ g_consec' = IF g_pushRan' THEN g_consec + 1
                   ELSE IF lastOp' \in {"undo", "redo", "jump"} THEN 0
                   ELSE g_consec

AddPageStep(limit) ==
    /\ MainReady(limit)
    /\ Len(pages) < MaxPages
    /\ \E l \in Layouts :
          Handled("add_page", "push", AddPageDirect(World, l[1], l[2], TRUE))
    /\ MainFrame

RenameStep(limit, names) ==
    /\ MainReady(limit)
    /\ \E i \in 0..(Len(pages) - 1), n \in names :
          Handled("rename", "push", RenameTab(World, i, n))
    /\ MainFrame

SelectTabStep(limit) ==
    /\ MainReady(limit)
    /\ \E i \in 0..(Len(pages) - 1) :
          /\ i # cur
          /\ Handled("select_tab", "plain", [World EXCEPT !.cur = i])
    /\ MainFrame

ImportStep(limit, paths) ==
    /\ MainReady(limit)
    /\ \E p \in paths :
          Handled("import", "push", ImportData(World, p))
    /\ MainFrame

PlotStep(limit, selections, xkeys, axes) ==
    /\ MainReady(limit)
    /\ \E labels \in selections, xk \in xkeys, ax_idx \in axes :
          Handled("plot", "push", PlotData(World, labels, xk, ax_idx))
    /\ MainFrame

LegendSettingsStep(limit) ==
    /\ MainReady(limit)
    /\ CurrentPage(World) # 0
    /\ \E idx \in 0..(pages[CurrentPage(World)].rows * pages[CurrentPage(World)].cols - 1),
           cfg \in LegendChoices :
          Handled("legend", "plain", OpenLegendSettings(World, idx, cfg))
    /\ MainFrame

UndoStep(limit) ==
    /\ MainReady(limit)
    /\ Handled("undo", "undo", Undo(World))
    /\ MainFrame

RedoStep(limit) ==
    /\ MainReady(limit)
    /\ Handled("redo", "redo", Redo(World))
    /\ MainFrame

\* the History dialog: restore_from_history(index)
JumpStep(limit, indices) ==
    /\ MainReady(limit)
    /\ \E index \in indices :
          /\ Handled("jump", "jump", RestoreFromHistory(World, index))
          /\ g_index' = index
    /\ UNCHANGED <<dm_open, linkVars, autoVars, legendVars, inputVars, unitVars>>

(***************************************************************************)
(* Spec: the session, its history and every user action                    *)
(***************************************************************************)

\* user actions per run
MaxOps == 4

AddPage == AddPageStep(MaxOps) /\ Untracked

Rename == RenameStep(MaxOps, TabNames) /\ Untracked

SelectTab == SelectTabStep(MaxOps) /\ Untracked

Import == ImportStep(MaxOps, Paths) /\ Untracked

Plot == PlotStep(MaxOps, {<<>>, <<"v">>}, {"index", "v"}, {0, 1}) /\ Untracked

LegendSettings == LegendSettingsStep(MaxOps) /\ Untracked

DataManagerOpen ==
    /\ MainReady(MaxOps)
    /\ Handled("dm_open", "dm_open", OpenDataManager(World))
    /\ dm_open' = TRUE
    /\ g_index' = NoIndex
    /\ UNCHANGED <<linkVars, autoVars, legendVars, inputVars, unitVars>>
    /\ Untracked

\* what a handler of the Data Manager leaves alone
DialogFrame == g_index' = NoIndex /\ UNCHANGED <<dm_open, linkVars, autoVars, legendVars, inputVars, unitVars>> /\ Untracked

DataManagerXLink ==
    /\ DialogReady(MaxOps)
    /\ \E sel \in SUBSET AllRows \ {{}} :
          Handled("dm_xlink", "dm_op", XLinkSelected(World, RowSeq(sel)))
    /\ DialogFrame

DataManagerUnlink ==
    /\ DialogReady(MaxOps)
    /\ \E sel \in SUBSET AllRows \ {{}} :
          Handled("dm_unlink", "dm_op", UnlinkSelected(World, RowSeq(sel)))
    /\ DialogFrame

DataManagerDelete ==
    /\ DialogReady(MaxOps)
    /\ \E sel \in SUBSET AllRows \ {{}} :
          Handled("dm_delete", "dm_op", DeleteSelectedTraces(World, RowSeq(sel)))
    /\ DialogFrame

DataManagerRemoveFile ==
    /\ DialogReady(MaxOps)
    /\ \E i \in 1..Len(LiveFiles(World)) :
          Handled("dm_remove_file", "dm_push", RemoveFile(World, LiveFiles(World)[i].name))
    /\ DialogFrame

DataManagerClose ==
    /\ ~aborted /\ dm_open
    /\ Install(World)
    /\ Record("dm_close", "dm_close", World)
    /\ dm_open' = FALSE
    /\ g_index' = NoIndex
    /\ UNCHANGED <<linkVars, autoVars, legendVars, inputVars, unitVars>>
    /\ Untracked

UndoAction == UndoStep(MaxOps) /\ Untracked

RedoAction == RedoStep(MaxOps) /\ Untracked

Jump == JumpStep(MaxOps, (0 - 1)..Len(undo_stack)) /\ Untracked

Next ==
    \/ AddPage \/ Rename \/ SelectTab \/ Import \/ Plot \/ LegendSettings
    \/ DataManagerOpen \/ DataManagerXLink \/ DataManagerUnlink
    \/ DataManagerDelete \/ DataManagerRemoveFile \/ DataManagerClose
    \/ UndoAction \/ RedoAction \/ Jump

Spec == Init /\ [][Next]_vars

(***************************************************************************)
(* Properties of undo, redo and jump                                       *)
(***************************************************************************)

\* what a snapshot says the session was: its dicts are read where they are
\* stored now
SnapView(w, state) ==
    [files |-> w.fileHeap[state.files],
     pages |-> [i \in 1..Len(state.pages) |->
                  [rows |-> state.pages[i].rows, cols |-> state.pages[i].cols,
                   title |-> state.pages[i].title,
                   traces |-> state.pages[i].traces,
                   trace_cnt |-> state.pages[i].trace_cnt,
                   link_ids |-> w.linkHeap[state.pages[i].link_ids],
                   legend_cfgs |-> w.legHeap[state.pages[i].legend_cfgs]]],
     cur |-> state.cur]

UndoSnap(i) == SnapView(World, undo_stack[i].state)

RedoSnap(i) == SnapView(World, redo_stack[i].state)

\* a handler ran in this step
Stepped == opCount' = opCount + 1

\* the handlers that call push() before they act
PushOps == {"add_page", "rename", "import", "plot", "dm_open", "dm_remove_file"}

\* C1: an undo() issued right after a pushed action restores the session
\* (pages, traces, link ids, legend configurations, file registry, current
\* page) that existed when push() was called
C1_UndoRestoresPreAction == g_phase = "undone" => View(World) = g_pushView

\* C2: undo() followed immediately by redo() restores the session that
\* existed when the pushed action was complete
C2_UndoRedoRestoresPostAction == g_phase = "redone" => View(World) = g_postView

\* C4: right after a push() that ran while restoring was false the redo
\* stack is empty, whatever it held; a redo() right after a fresh action
\* changes nothing
C4_RedoEmptyAfterPush ==
    [][/\ (Stepped /\ g_pushRan') => redo_stack' = <<>>
       /\ (Stepped /\ lastOp' = "redo" /\ g_phase = "acted") => progVars' = progVars]_vars

\* a push() has just emptied a redo stack that held entries
C4_Witness == g_cleared /\ redo_stack = <<>> /\ lastOp \in PushOps

\* C8: jump(index) with a valid index makes the session equal to the snapshot
\* of undo entry index and changes neither stack; an index outside the undo
\* stack changes nothing
C8_JumpRestoresSnapshot ==
    [][(Stepped /\ lastOp' = "jump") =>
          IF g_index' \in 0..(Len(undo_stack) - 1)
          THEN /\ undo_stack' = undo_stack
               /\ redo_stack' = redo_stack
               /\ (View(World) = UndoSnap(g_index + 1))'
          ELSE progVars' = progVars]_vars

\* C9: no step changes what a snapshot held in the undo or redo stack says
\* the session was
C9_SnapshotsIndependent ==
    [][/\ \A i \in 1..Len(undo_stack) :
             (i <= Len(undo_stack') /\ undo_stack'[i] = undo_stack[i])
                => UndoSnap(i)' = UndoSnap(i)
       /\ \A i \in 1..Len(redo_stack) :
             (i <= Len(redo_stack') /\ redo_stack'[i] = redo_stack[i])
                => RedoSnap(i)' = RedoSnap(i)]_vars

(***************************************************************************)
(* SpecGuard: a file is replaced under a plotted trace and the history is  *)
(* restored                                                                *)
(***************************************************************************)

\* user actions per run
MaxGuardOps == 6

\* two files of the same name: importing the second replaces the first
ReplacingPaths == {"/a/a.csv", "/b/a.csv"}

GuardImport == ImportStep(MaxGuardOps, ReplacingPaths) /\ Untracked

GuardPlot == PlotStep(MaxGuardOps, {<<"v">>}, {"index"}, {0}) /\ Untracked

GuardRename == RenameStep(MaxGuardOps, TabNames) /\ Untracked

GuardUndo == UndoStep(MaxGuardOps) /\ Untracked

GuardRedo == RedoStep(MaxGuardOps) /\ Untracked

GuardJump == JumpStep(MaxGuardOps, 0..(Len(undo_stack) - 1)) /\ Untracked

GuardNext ==
    \/ GuardImport \/ GuardPlot \/ GuardRename
    \/ GuardUndo \/ GuardRedo \/ GuardJump

SpecGuard == Init /\ [][GuardNext]_vars

\* C7: push() called while restoring is true changes neither stack, and a
\* restore appends nothing to the undo stack through push(): undo() only
\* pops its entry, redo() only adds its own "Redo" entry, jump() leaves the
\* stack as it is
C7_NoPushWhileRestoring ==
    [][/\ (Stepped /\ lastOp' \in PushOps /\ is_restoring)
              => (undo_stack' = undo_stack /\ redo_stack' = redo_stack)
       /\ (Stepped /\ lastOp' = "undo")
              => undo_stack' = SubSeq(undo_stack, 1, Len(undo_stack) - 1)
       /\ (Stepped /\ lastOp' = "redo" /\ redo_stack = <<>>)
              => undo_stack' = undo_stack
       /\ (Stepped /\ lastOp' = "redo" /\ redo_stack # <<>>)
              => /\ Len(undo_stack') = Len(undo_stack) + 1
                 /\ SubSeq(undo_stack', 1, Len(undo_stack)) = undo_stack
                 /\ undo_stack'[Len(undo_stack')].desc = "Redo"
       /\ (Stepped /\ lastOp' = "jump")
              => undo_stack' = undo_stack]_vars

\* a handler has called push() while restoring was true
C7_Witness == is_restoring /\ lastOp \in PushOps /\ ~g_pushRan

(***************************************************************************)
(* SpecHist: a long history.  Tabs are renamed until the undo stack is     *)
(* nearly full; from then on the history is also undone, redone and        *)
(* browsed                                                                 *)
(***************************************************************************)

\* user actions per run
MaxHistOps == 55

\* undo, redo and jump start once this many entries are stored
HistFilled == Len(undo_stack) + Len(redo_stack) >= UndoLimit - 1

HistRename == RenameStep(MaxHistOps, {<<"Name", opCount + 1>>}) /\ Tracked

HistUndo == HistFilled /\ UndoStep(MaxHistOps) /\ Tracked

HistRedo == HistFilled /\ RedoStep(MaxHistOps) /\ Tracked

\* the first and the last entry and the two nearest indices outside the stack
HistJump ==
    /\ HistFilled
    /\ JumpStep(MaxHistOps, {0 - 1, 0, Len(undo_stack) - 1, Len(undo_stack)})
    /\ Tracked

HistNext == HistRename \/ HistUndo \/ HistRedo \/ HistJump

SpecHist == Init /\ [][HistNext]_vars

\* C3: the undo stack never holds more than 50 entries; a push() on a full
\* stack drops the oldest entry only and keeps the other entries in order;
\* after 50 or more consecutive push()es the stack holds the 50 most recent
\* snapshots
C3_BoundedHistory ==
    /\ [](Len(undo_stack) <= UndoLimit)
    /\ [][(Stepped /\ g_pushRan') =>
             /\ undo_stack'[Len(undo_stack')].state.pages = GetState(World).state.pages
             /\ IF Len(undo_stack) = UndoLimit
                THEN /\ Len(undo_stack') = UndoLimit
                     /\ SubSeq(undo_stack', 1, UndoLimit - 1) = Tail(undo_stack)
                ELSE SubSeq(undo_stack', 1, Len(undo_stack)) = undo_stack]_vars
    /\ [](g_consec >= UndoLimit =>
             /\ Len(undo_stack) = UndoLimit
             /\ \A i \in 1..UndoLimit :
                   UndoSnap(i) = g_pushed[Len(g_pushed) - UndoLimit + i])

\* a push() has dropped the oldest entry of a full stack
C3_Witness == g_consec > UndoLimit /\ Len(undo_stack) = UndoLimit /\ lastOp = "rename"

(***************************************************************************)
(* SpecAuto: AutoscaleCalculator.calculate_limits on a list of traces      *)
(***************************************************************************)

\* traces per call
MaxAutoTraces == 2

\* raw sample arrays: positive, negative, mixed, constant, with a NaN, and
\* two whose padded minimum or maximum is exactly 0
RawChoices == {<<0, 20>>, <<0 - 19, 0, 5>>, <<0 - 7>>, <<5>>, <<0>>,
               <<0 - 22, 0 - 21>>, <<NaN, 3>>, <<NaN>>,
               <<1, 21>>, <<0 - 21, 0 - 1>>}

\* factors 1.0, 0.1 and -1.0, offsets 0.0 and 2.5
FactorChoices == {FUnit, 1, 0 - FUnit}

OffsetChoices == {0, 25}

AutoTraces ==
    {[line |-> [xdata |-> <<>>, ydata |-> <<>>], raw_x |-> <<0, 1>>, raw_y |-> r,
      x_factor |-> FUnit, x_offset |-> 0, y_factor |-> f, y_offset |-> o] :
        r \in RawChoices, f \in FactorChoices, o \in OffsetChoices}

AutoInit ==
    /\ SessionInit /\ GhostInit /\ LinkIdle /\ LegendIdle /\ InputIdle /\ UnitIdle
    /\ \E n \in 1..MaxAutoTraces : as_traces \in [1..n -> AutoTraces]
    /\ as_dir \in {"x", "y"}
    /\ as_limits = NoLimits
    /\ as_pc = "call"

AutoCalc ==
    /\ as_pc = "call"
    /\ as_limits' = CalculateLimits(as_traces, as_dir)
    /\ as_pc' = "done"
    /\ UNCHANGED <<as_traces, as_dir, progVars, ghostVars, linkVars, legendVars, inputVars, unitVars>>

SpecAuto == AutoInit /\ [][AutoCalc]_vars

\* C10: for every non-empty set of finite pooled values the limits returned
\* by calculate_limits contain the data: min <= data_min, max >= data_max
C10_AutoscaleContainment ==
    (as_pc = "done" /\ PooledValues(as_traces, as_dir) # {}) =>
        /\ as_limits # NoLimits
        /\ as_limits[1] <= SetMin(PooledValues(as_traces, as_dir)) * LUnit
        /\ as_limits[2] >= SetMax(PooledValues(as_traces, as_dir)) * LUnit
        /\ as_limits[1] <= as_limits[2]

\* the padded values min_val - margin and max_val + margin of the call, in
\* limit units
PaddedValues ==
    LET all_values == PooledValues(as_traces, as_dir)
        min_val == SetMin(all_values)
        max_val == SetMax(all_values)
        margin == IF max_val = min_val
                  THEN (IF min_val # 0 THEN Abs(min_val) * (LUnit \div 10)
                        ELSE FUnit * FUnit * LUnit)
                  ELSE (max_val - min_val) * (LUnit \div 20)
    IN  <<min_val * LUnit - margin, max_val * LUnit + margin>>

\* the decimal exponents of the values that occur (below 2 * 10^9 limit units)
Exponents == 0..8

\* b is sign(v) * m * 10^k with m a nice number and k = floor(log10(|v|)):
\* 2 * 10^e limit units are 10^k
IsNiceOf(b, v) ==
    \E e \in Exponents, i \in 1..Len(nice_numbers) :
        /\ 2 * Pow10(e) <= Abs(v) /\ Abs(v) < 2 * Pow10(e + 1)
        /\ b = (IF v < 0 THEN 0 - 1 ELSE 1) * nice_numbers[i] * Pow10(e)

\* C11: every bound returned by calculate_limits is 0 when the padded value
\* is 0 and else sign * m * 10^k with m in {1, 1.5, 2, 2.5, 3, 4, 5, 6, 8, 10}
\* and k = floor(log10(|v|)) of the padded value v
C11_NiceBounds ==
    (as_pc = "done" /\ PooledValues(as_traces, as_dir) # {}) =>
        /\ as_limits # NoLimits
        /\ \A j \in 1..2 :
              IF PaddedValues[j] = 0 THEN as_limits[j] = 0
              ELSE IsNiceOf(as_limits[j], PaddedValues[j])

\* a call whose padded minimum is 0 and whose padded maximum is not
C11_Witness ==
    /\ as_pc = "done" /\ PooledValues(as_traces, as_dir) # {}
    /\ PaddedValues[1] = 0 /\ as_limits[1] = 0
    /\ PaddedValues[2] > 0 /\ as_limits[2] > 0

(***************************************************************************)
(* SpecLink: the x-range broadcast.  Ranges are counted in millionths.     *)
(* A handler runs as a stack of frames, one step per statement that can    *)
(* call back: the callbacks of set_xlim and the slot of the signal run     *)
(* inside the caller, on the same thread                                   *)
(***************************************************************************)

\* events (pages added, links made or removed, ranges changed) per run
MaxLinkEvents == 4

\* link ids in use
MaxLinkIds == 2

\* the range of a new axis: (0.0, 1.0)
DefaultXlim == <<0, 1000000>>

\* the ranges a user zooms to: the second is within tolerance of the first
XRanges == {<<1000000, 2000000>>, <<1000005, 2000010>>}

\* the layout of the pages added
LinkLayouts == {<<2, 1>>}

\* np.isclose(a, b): |a - b| <= atol + rtol * |b| with atol = 1e-8 and
\* rtol = 1e-5, for a and b whole numbers of millionths
IsClose(a, b) == Abs(a - b) <= (1000 + Abs(b)) \div 100000

NumAxes(p) == pages[p].rows * pages[p].cols

\* xlink_mgr.get_link_id(idx) on page p
LinkOf(p, idx) == GetLinkId(linkHeap[pages[p].xlink_mgr], idx)

Top == frames[Len(frames)]

Pop == SubSeq(frames, 1, Len(frames) - 1)

\* no handler is running
Idle == frames = <<>>

LinkReady == ~aborted /\ Idle /\ opCount < MaxLinkEvents

\* the counters of a new external event
NewEvent == apply_runs' = [p \in 1..Len(pages') |-> 0]

LinkInit ==
    /\ SessionInit /\ GhostInit /\ AutoIdle /\ LegendIdle /\ InputIdle /\ UnitIdle
    /\ axes_xlim = <<<<DefaultXlim>>>>
    /\ updating_xlim = <<FALSE>>
    /\ frames = <<>>
    /\ emits = 0
    /\ apply_runs = <<0>>
    /\ target = NoTarget

\* add_page_direct: a new PageCanvas with its axes, its flag cleared
LinkAddPage ==
    /\ LinkReady
    /\ Len(pages) < MaxPages
    /\ \E l \in LinkLayouts :
          /\ Handled("add_page", "push", AddPageDirect(World, l[1], l[2], TRUE))
          /\ axes_xlim' = Append(axes_xlim, [i \in 1..(l[1] * l[2]) |-> DefaultXlim])
    /\ updating_xlim' = Append(updating_xlim, FALSE)
    /\ NewEvent
    /\ emits' = 0
    /\ target' = NoTarget
    /\ g_index' = NoIndex
    /\ UNCHANGED <<dm_open, frames, autoVars, legendVars, inputVars, unitVars>>
    /\ Untracked

\* create_xlink_group([idx], link_id) on page p, as the Data Manager calls
\* it for a row: the link is stored and the range of the axis is emitted
LinkCreate ==
    /\ LinkReady
    /\ \E p \in 1..Len(pages), lid \in 1..MaxLinkIds :
       \E idx \in 0..(NumAxes(p) - 1) :
          /\ Handled("create_xlink_group", "plain", CreateXLinkGroup(World, p, <<idx>>, lid))
          /\ frames' = <<[fn |-> "broadcast_global_xlim", link_id |-> lid,
                          xmin |-> axes_xlim[p][idx + 1][1],
                          xmax |-> axes_xlim[p][idx + 1][2], i |-> 1]>>
          /\ target' = [link_id |-> lid, xmin |-> axes_xlim[p][idx + 1][1],
                        xmax |-> axes_xlim[p][idx + 1][2]]
    /\ emits' = 1
    /\ NewEvent
    /\ g_index' = NoIndex
    /\ UNCHANGED <<dm_open, axes_xlim, updating_xlim, autoVars, legendVars, inputVars, unitVars>>
    /\ Untracked

\* remove_from_xlink(idx) on page p
LinkRemove ==
    /\ LinkReady
    /\ \E p \in 1..Len(pages) :
       \E idx \in 0..(NumAxes(p) - 1) :
          /\ LinkOf(p, idx) # NoLink
          /\ Handled("remove_from_xlink", "plain", RemoveFromXLink(World, p, idx))
    /\ emits' = 0
    /\ NewEvent
    /\ target' = NoTarget
    /\ g_index' = NoIndex
    /\ UNCHANGED <<dm_open, axes_xlim, updating_xlim, frames, autoVars, legendVars, inputVars, unitVars>>
    /\ Untracked

\* the user pans or zooms axis idx of page p: set_xlim, whose callback is
\* on_xlim_changed(idx)
UserSetXlim ==
    /\ LinkReady
    /\ \E p \in 1..Len(pages), r \in XRanges :
       \E idx \in 0..(NumAxes(p) - 1) :
          /\ axes_xlim' = [axes_xlim EXCEPT ![p][idx + 1] = r]
          /\ frames' = <<[fn |-> "on_xlim_changed", page |-> p, idx |-> idx]>>
          /\ target' = IF LinkOf(p, idx) # NoLink
                       THEN [link_id |-> LinkOf(p, idx), xmin |-> r[1], xmax |-> r[2]]
                       ELSE NoTarget
    /\ Install(World)
    /\ Record("set_xlim", "plain", World)
    /\ emits' = 0
    /\ NewEvent
    /\ g_index' = NoIndex
    /\ UNCHANGED <<dm_open, updating_xlim, autoVars, legendVars, inputVars, unitVars>>
    /\ Untracked

\* what a statement of a running handler leaves alone
Running == UNCHANGED <<progVars, ghostVars, autoVars, legendVars, inputVars, unitVars, target>>

\* on_xlim_changed with the test of _updating_xlim left out
OnXlimChangedUnguarded ==
    /\ ~Idle /\ Top.fn = "on_xlim_changed"
    /\ IF LinkOf(Top.page, Top.idx) = NoLink
       THEN frames' = Pop /\ emits' = emits
       ELSE /\ emits' = emits + 1
            /\ frames' = Append(Pop, [fn |-> "broadcast_global_xlim",
                                      link_id |-> LinkOf(Top.page, Top.idx),
                                      xmin |-> axes_xlim[Top.page][Top.idx + 1][1],
                                      xmax |-> axes_xlim[Top.page][Top.idx + 1][2],
                                      i |-> 1])
    /\ UNCHANGED <<axes_xlim, updating_xlim, apply_runs>>
    /\ Running

\* on_xlim_changed: return while the page applies a broadcast or when the
\* axis has no link, else emit global_xlim_changed, whose slot is
\* broadcast_global_xlim
OnXlimChanged ==
    /\ ~Idle /\ Top.fn = "on_xlim_changed"
    /\ IF updating_xlim[Top.page] \/ LinkOf(Top.page, Top.idx) = NoLink
       THEN frames' = Pop /\ emits' = emits
       ELSE /\ emits' = emits + 1
            /\ frames' = Append(Pop, [fn |-> "broadcast_global_xlim",
                                      link_id |-> LinkOf(Top.page, Top.idx),
                                      xmin |-> axes_xlim[Top.page][Top.idx + 1][1],
                                      xmax |-> axes_xlim[Top.page][Top.idx + 1][2],
                                      i |-> 1])
    /\ UNCHANGED <<axes_xlim, updating_xlim, apply_runs>>
    /\ Running

\* broadcast_global_xlim that stops after the first page
BroadcastFirstPageOnly ==
    /\ ~Idle /\ Top.fn = "broadcast_global_xlim"
    /\ IF Top.i > 1
       THEN frames' = Pop
       ELSE frames' = Append(Append(Pop, [Top EXCEPT !.i = @ + 1]),
                             [fn |-> "apply_global_xlim", page |-> Top.i,
                              link_id |-> Top.link_id, xmin |-> Top.xmin,
                              xmax |-> Top.xmax, pc |-> "enter", j |-> 0])
    /\ UNCHANGED <<axes_xlim, updating_xlim, emits, apply_runs>>
    /\ Running

\* broadcast_global_xlim: the next page of the tab widget, in tab order
BroadcastGlobalXlim ==
    /\ ~Idle /\ Top.fn = "broadcast_global_xlim"
    /\ IF Top.i > Len(pages)
       THEN frames' = Pop
       ELSE frames' = Append(Append(Pop, [Top EXCEPT !.i = @ + 1]),
                             [fn |-> "apply_global_xlim", page |-> Top.i,
                              link_id |-> Top.link_id, xmin |-> Top.xmin,
                              xmax |-> Top.xmax, pc |-> "enter", j |-> 0])
    /\ UNCHANGED <<axes_xlim, updating_xlim, emits, apply_runs>>
    /\ Running

\* apply_global_xlim: the test of the flag, then one axis per step (its
\* set_xlim calls back on_xlim_changed), then the finally block
ApplyGlobalXlim ==
    /\ ~Idle /\ Top.fn = "apply_global_xlim"
    /\ LET pg == Top.page
           j == Top.j
           cur_lim == axes_xlim[pg][j + 1]
       IN  CASE Top.pc = "enter" /\ updating_xlim[pg] ->
                  /\ frames' = Pop
                  /\ UNCHANGED <<axes_xlim, updating_xlim, apply_runs>>
             [] Top.pc = "enter" /\ ~updating_xlim[pg] ->
                  /\ updating_xlim' = [updating_xlim EXCEPT ![pg] = TRUE]
                  /\ apply_runs' = [apply_runs EXCEPT ![pg] = @ + 1]
                  /\ frames' = Append(Pop, [Top EXCEPT !.pc = "loop"])
                  /\ UNCHANGED axes_xlim
             [] Top.pc = "loop" /\ j < NumAxes(pg) ->
                  IF LinkOf(pg, j) # Top.link_id
                     \/ (IsClose(cur_lim[1], Top.xmin) /\ IsClose(cur_lim[2], Top.xmax))
                  THEN /\ frames' = Append(Pop, [Top EXCEPT !.j = @ + 1])
                       /\ UNCHANGED <<axes_xlim, updating_xlim, apply_runs>>
                  ELSE /\ axes_xlim' = [axes_xlim EXCEPT ![pg][j + 1] = <<Top.xmin, Top.xmax>>]
                       /\ frames' = Append(Append(Pop, [Top EXCEPT !.j = @ + 1]),
                                           [fn |-> "on_xlim_changed", page |-> pg, idx |-> j])
                       /\ UNCHANGED <<updating_xlim, apply_runs>>
             [] OTHER ->
                  /\ updating_xlim' = [updating_xlim EXCEPT ![pg] = FALSE]
                  /\ frames' = Pop
                  /\ UNCHANGED <<axes_xlim, apply_runs>>
    /\ emits' = emits
    /\ Running

LinkNext ==
    \/ LinkAddPage \/ LinkCreate \/ LinkRemove \/ UserSetXlim
    \/ OnXlimChanged \/ BroadcastGlobalXlim \/ ApplyGlobalXlim

SpecLink == LinkInit /\ [][LinkNext]_vars

\* a handler that was called runs to its end: the calls are synchronous
SpecLinkFair ==
    /\ SpecLink
    /\ WF_vars(OnXlimChanged) /\ WF_vars(BroadcastGlobalXlim) /\ WF_vars(ApplyGlobalXlim)

\* the axes of pages p and q carry the link of the last range change
CrossPage(p, q) ==
    /\ p # q
    /\ \E a \in 0..(NumAxes(p) - 1) : LinkOf(p, a) = target.link_id
    /\ \E b \in 0..(NumAxes(q) - 1) : LinkOf(q, b) = target.link_id

\* C5: once a range change on an axis with link id L has been processed,
\* every axis of every page with link id L has a range within the closeness
\* tolerance of the new range
C5_LinkConvergence ==
    (Idle /\ target.link_id # NoLink) =>
        \A p \in 1..Len(pages) : \A idx \in 0..(NumAxes(p) - 1) :
            LinkOf(p, idx) = target.link_id =>
                /\ IsClose(axes_xlim[p][idx + 1][1], target.xmin)
                /\ IsClose(axes_xlim[p][idx + 1][2], target.xmax)

\* a user's range change on a link group that spans two pages was processed
C5_Witness ==
    /\ Idle /\ lastOp = "set_xlim" /\ target.link_id # NoLink
    /\ \E p, q \in 1..Len(pages) : CrossPage(p, q)

\* C6: one external range change on a linked axis causes one broadcast
\* pass: one emission, apply_global_xlim at most once per page, no emission
\* from the ranges it sets, and the handler ends with every flag cleared
C6_OneBroadcastPass ==
    /\ [](emits <= 1)
    /\ [](\A p \in 1..Len(pages) : apply_runs[p] <= 1)
    /\ []((Idle /\ lastOp = "set_xlim" /\ target.link_id # NoLink) =>
             (emits = 1 /\ \A p \in 1..Len(pages) : apply_runs[p] = 1))
    /\ [](Idle => \A p \in 1..Len(pages) : ~updating_xlim[p])
    /\ (~Idle ~> Idle)

\* the broadcast of a user's range change has run through two linked pages
C6_Witness ==
    /\ Idle /\ lastOp = "set_xlim" /\ emits = 1
    /\ \E p, q \in 1..Len(pages) :
          CrossPage(p, q) /\ apply_runs[p] = 1 /\ apply_runs[q] = 1

(***************************************************************************)
(* SpecTrace: one plotted trace is edited, autoscaled in the Data Manager   *)
(* and restored by undo and redo                                           *)
(***************************************************************************)

\* user actions per run
MaxTraceOps == 5

\* the files of the plotted trace
TracePaths == {"/t/ramp.csv", "/t/wide.csv"}

\* what the Trace Settings dialog returns: the side always, and the fields
\* the user changed (factors in tenths)
TraceEdits ==
    {[yaxis |-> "left", y_factor |-> 1],
     [yaxis |-> "left", y_factor |-> 2 * FUnit, transform |-> "mov_avg", window_size |-> 3],
     [yaxis |-> "left", transform |-> "mov_avg"],
     [yaxis |-> "left", transform |-> "cumsum", y_offset |-> 25],
     [yaxis |-> "left", transform |-> "None"]}

\* the session after a file was imported and its variable plotted
TraceInit ==
    /\ \E p \in TracePaths :
         \E w \in {PlotData(ImportData(InitWorld, p), <<"v">>, "index", 0)} :
            /\ file_data_map = w.file_data_map
            /\ current_file = w.current_file
            /\ pages = w.pages
            /\ cur = w.cur
            /\ undo_stack = w.undo_stack
            /\ redo_stack = w.redo_stack
            /\ is_restoring = w.is_restoring
            /\ fileHeap = w.fileHeap
            /\ linkHeap = w.linkHeap
            /\ legHeap = w.legHeap
            /\ uuid_cnt = w.uuid_cnt
    /\ dm_open = FALSE
    /\ aborted = FALSE
    /\ GhostInit /\ LinkIdle /\ AutoIdle /\ LegendIdle /\ InputIdle /\ UnitIdle

\* a click on a line opens its settings: edit_trace_by_id
TraceEdit ==
    /\ MainReady(MaxTraceOps)
    /\ CurrentPage(World) # 0
    /\ \E tid \in DOMAIN pages[CurrentPage(World)].traces, s \in TraceEdits :
          Handled("edit_trace", "plain", EditTraceById(World, tid, s))
    /\ MainFrame /\ Untracked

TraceDataManagerOpen ==
    /\ MainReady(MaxTraceOps)
    /\ Handled("dm_open", "dm_open", OpenDataManager(World))
    /\ dm_open' = TRUE
    /\ g_index' = NoIndex
    /\ UNCHANGED <<linkVars, autoVars, legendVars, inputVars, unitVars>>
    /\ Untracked

\* autoscale_selected_x / autoscale_selected_y with one row selected; the
\* call of calculate_limits is recorded
TraceAutoscale ==
    /\ DialogReady(MaxTraceOps)
    /\ \E row \in AllRows, axis_dir \in {"x", "y"} :
          /\ Handled("autoscale", "dm_op", AutoscaleSelected(World, <<row>>, axis_dir))
          /\ as_traces' = <<pages[row[1]].traces[row[2]]>>
          /\ as_dir' = axis_dir
          /\ as_limits' = CalculateLimits(<<pages[row[1]].traces[row[2]]>>, axis_dir)
          /\ as_pc' = "done"
    /\ g_index' = NoIndex
    /\ UNCHANGED <<dm_open, linkVars, legendVars, inputVars, unitVars>>
    /\ Untracked

TraceDataManagerClose ==
    /\ ~aborted /\ dm_open
    /\ Handled("dm_close", "dm_close", World)
    /\ dm_open' = FALSE
    /\ g_index' = NoIndex
    /\ UNCHANGED <<linkVars, autoVars, legendVars, inputVars, unitVars>>
    /\ Untracked

TraceUndo == UndoStep(MaxTraceOps) /\ Untracked

TraceRedo == RedoStep(MaxTraceOps) /\ Untracked

TraceNext ==
    \/ TraceEdit \/ TraceDataManagerOpen \/ TraceAutoscale
    \/ TraceDataManagerClose \/ TraceUndo \/ TraceRedo

SpecTrace == TraceInit /\ [][TraceNext]_vars

\* all traces of the session
AllTraces == {pages[r[1]].traces[r[2]] : r \in AllRows}

\* a trace as it is before anything was rendered into its line
Unrendered(t) == [t EXCEPT !.line = [xdata |-> <<>>, ydata |-> <<>>]]

\* C12: the limits of a trace with raw samples come from raw * factor +
\* offset, whatever its line holds and however often it was rendered or
\* autoscaled before: raw_y <<0, 20000>> with y_factor 0.1 gives (-100, 2500),
\* and autoscaling an unchanged trace again returns the same limits
C12_AutoscaleFromRaw ==
    /\ [](as_pc = "done" =>
            /\ as_limits # NoLimits
            /\ as_limits = CalculateLimits(<<Unrendered(as_traces[1])>>, as_dir)
            /\ (/\ as_dir = "y" /\ as_traces[1].raw_y = <<0, 20000>>
                /\ as_traces[1].y_factor = 1 /\ as_traces[1].y_offset = 0)
                    => as_limits = <<0 - 100 * 100 * LUnit, 2500 * 100 * LUnit>>)
    /\ [][(/\ as_pc = "done" /\ as_pc' = "done" /\ as_dir' = as_dir
           /\ \A k \in {"raw_x", "raw_y", "x_factor", "x_offset", "y_factor", "y_offset"} :
                 as_traces'[1][k] = as_traces[1][k])
              => as_limits' = as_limits]_vars

\* the trace of the example autoscaled after it was rendered with its factor
\* and autoscaled before
C12_Witness ==
    /\ as_pc = "done" /\ as_dir = "y" /\ lastOp = "autoscale"
    /\ as_traces[1].raw_y = <<0, 20000>> /\ as_traces[1].y_factor = 1
    /\ as_traces[1].line.ydata = <<0, 20000>>
    /\ as_traces[1].ax_ymin = 0 - 100 * 100 * LUnit

\* what the line of trace t has to hold: the transform of raw_y (moving
\* average, cumulative sum or none) first, factor and offset afterwards
TransformFirst(t) ==
    LET ty == CASE t.transform = "mov_avg" -> MovAvg(t.raw_y, Get(t, "window_size", 5))
                [] t.transform = "cumsum" -> CumSum(t.raw_y)
                [] OTHER -> t.raw_y
    IN  [xdata |-> [i \in 1..Len(t.raw_x) |-> t.raw_x[i] * t.x_factor + t.x_offset],
         ydata |-> [i \in 1..Len(ty) |->
                       IF ty[i] = NaN THEN NaN ELSE ty[i] * t.y_factor + t.y_offset]]

C14_MovingAverageExample ==
    \A t \in AllTraces :
        (/\ t.raw_y = <<1, 2, 3, 4, 5>> /\ t.transform = "mov_avg"
         /\ Get(t, "window_size", 5) = 3
         /\ t.y_factor = 2 * FUnit /\ t.y_offset = 0)
            => t.line.ydata = <<30, 40, 60, 80, 90>>

(***************************************************************************)
(* SpecFiles: import, plot, file replacement in the Data Manager and        *)
(* project load, on files whose variables differ                            *)
(***************************************************************************)

\* handlers run per behaviour
MaxFileOps == 5

\* the data files the user can pick: log.csv with v and u, a later log.csv
\* without u, aux.csv with u only, and a file that cannot be decoded
FilePaths == {"/r1/log.csv", "/r2/log.csv", "/r2/aux.csv", "/c/bad.csv"}

\* the project files the user can pick
ProjectPaths == {"/p/missing.splot", "/p/garbled.splot", "/p/nopages.splot",
                 "/p/legacy.splot", "/p/new.splot"}

\* the inputs of the handler: the rows, the path and the dialog answers
Inputs(rows, path, answers) ==
    /\ in_rows' = rows
    /\ in_path' = path
    /\ in_answers' = answers

\* what a handler of the main window leaves alone
FilesFrame == g_index' = NoIndex /\ UNCHANGED <<dm_open, linkVars, autoVars, legendVars, unitVars>> /\ Untracked

FilesImport ==
    /\ MainReady(MaxFileOps)
    /\ \E p \in FilePaths :
          /\ Handled("import", "push", ImportData(World, p))
          /\ Inputs(<<>>, p, <<>>)
    /\ FilesFrame

\* plot_data with one row of the channel table selected and an x axis of
\* the x-axis combo: both list the variables of the current file
FilesPlot ==
    /\ MainReady(MaxFileOps)
    /\ FileIndex(LiveFiles(World), current_file) # 0
    /\ \E var \in {"v", "u"}, xk \in {"index", "u"} :
          /\ LET ds == Dataset(LiveFiles(World)[FileIndex(LiveFiles(World), current_file)].ds)
             IN  var \in DOMAIN ds.vars /\ (xk = "index" \/ xk \in DOMAIN ds.vars)
          /\ Handled("plot", "push", PlotData(World, <<var>>, xk, 0))
    /\ Inputs(<<>>, NoPath, <<>>)
    /\ FilesFrame

FilesAddPage ==
    /\ MainReady(MaxFileOps)
    /\ Len(pages) < MaxPages
    /\ Handled("add_page", "push", AddPageDirect(World, 1, 1, TRUE))
    /\ Inputs(<<>>, NoPath, <<>>)
    /\ FilesFrame

\* load_project; a project that was read and applied is added to the
\* file history
FilesLoadProject ==
    /\ MainReady(MaxFileOps)
    /\ \E p \in ProjectPaths :
          /\ Handled("load_project", "push", LoadProject(World, p))
          /\ Inputs(<<>>, p, <<>>)
          /\ \E fh \in {IF ProjectFile(p) = "saved"
                         THEN AddEntry([history |-> fh_history, log |-> fh_log], p, opCount + 1)
                         ELSE [history |-> fh_history, log |-> fh_log]} :
                fh_history' = fh.history /\ fh_log' = fh.log
    /\ g_index' = NoIndex
    /\ UNCHANGED <<dm_open, linkVars, autoVars, legendVars, xmVars, pg_draws>>
    /\ Untracked

FilesDataManagerOpen ==
    /\ MainReady(MaxFileOps)
    /\ Handled("dm_open", "dm_open", OpenDataManager(World))
    /\ dm_open' = TRUE
    /\ g_index' = NoIndex
    /\ Inputs(<<>>, NoPath, <<>>)
    /\ UNCHANGED <<linkVars, autoVars, legendVars, unitVars>>
    /\ Untracked

\* the names of the file table, in registry order
FileRows == [i \in 1..Len(LiveFiles(World)) |-> LiveFiles(World)[i].name]

\* set_replace: one row or all rows selected, a path picked or the file
\* dialog cancelled, and each options dialog accepted or cancelled
FilesReplace ==
    /\ DialogReady(MaxFileOps)
    /\ FileRows # <<>>
    /\ \E rows \in {<<FileRows[i]>> : i \in 1..Len(FileRows)} \cup {FileRows},
          path \in (FilePaths \ {"/c/bad.csv"}) \cup {NoPath} :
          \E answers \in [1..Len(rows) -> BOOLEAN] :
              /\ path = NoPath => \A i \in 1..Len(rows) : answers[i]
              /\ Handled("dm_replace", "dm_op", SetReplace(World, rows, path, answers))
              /\ Inputs(rows, path, answers)
    /\ g_index' = NoIndex
    /\ UNCHANGED <<dm_open, linkVars, autoVars, legendVars, unitVars>>
    /\ Untracked

FilesDataManagerClose ==
    /\ ~aborted /\ dm_open
    /\ Handled("dm_close", "dm_close", World)
    /\ dm_open' = FALSE
    /\ g_index' = NoIndex
    /\ Inputs(<<>>, NoPath, <<>>)
    /\ UNCHANGED <<linkVars, autoVars, legendVars, unitVars>>
    /\ Untracked

FilesNext ==
    \/ FilesImport \/ FilesPlot \/ FilesAddPage \/ FilesLoadProject
    \/ FilesDataManagerOpen \/ FilesReplace \/ FilesDataManagerClose

SpecFiles == Init /\ [][FilesNext]_vars

\* C18: when files are replaced, no exception leaves the handler; a trace
\* of a replaced file whose variable key or x key is not in the new dataset
\* is exactly what it was, and every other trace of a replaced file has the
\* new file name, the new raw arrays and a line rendered from them
C18_StaleReferenceOnReload ==
    [][(Stepped /\ lastOp' = "dm_replace" /\ in_path' # NoPath) =>
          LET replaced == {in_rows'[i] : i \in {j \in 1..Len(in_rows') : in_answers'[j]}}
              ds == Dataset(ImportFile(in_path').ds)
              Stale(t) == \/ t.var_key \notin DOMAIN ds.vars
                          \/ (t.x_key # "index" /\ t.x_key \notin DOMAIN ds.vars)
              Reloaded(t) ==
                  /\ t.file = Basename(in_path')
                  /\ t.raw_y = ds.vars[t.var_key]
                  /\ t.raw_x = IF t.x_key = "index" THEN ds.index ELSE ds.vars[t.x_key]
                  /\ t.line = Rendered(t)
          IN  /\ ~aborted'
              /\ \A r \in AllRows :
                    pages[r[1]].traces[r[2]].file \in replaced =>
                        IF Stale(pages[r[1]].traces[r[2]])
                        THEN pages'[r[1]].traces[r[2]] = pages[r[1]].traces[r[2]]
                        ELSE Reloaded(pages'[r[1]].traces[r[2]])]_vars

\* C19: an import whose file cannot be imported, and a project load whose
\* file is missing, cannot be decoded or cannot be applied, leave the
\* session (file registry, pages with their traces, current page) as it was
C19_FailedLoadLeavesSession ==
    [][(/\ Stepped
        /\ \/ lastOp' = "import" /\ ~ImportFile(in_path').success
           \/ lastOp' = "load_project" /\ ProjectFile(in_path') # "saved")
          => View(World)' = View(World)]_vars

\* C20: a file replacement in which the file dialog or the options dialog
\* of any selected file is cancelled leaves the session as it was
C20_CancelAbandonsAction ==
    [][(/\ Stepped
        /\ lastOp' = "dm_replace"
        /\ \/ in_path' = NoPath
           \/ \E i \in 1..Len(in_answers') : ~in_answers'[i])
          => View(World)' = View(World)]_vars

\* C22: undo() with an empty undo stack and redo() with an empty redo stack
\* change nothing (session, stacks, restoring flag) and raise nothing
C22_EmptyStackNoOp ==
    [][(/\ Stepped
        /\ \/ lastOp' = "undo" /\ undo_stack = <<>>
           \/ lastOp' = "redo" /\ redo_stack = <<>>)
          => UNCHANGED progVars]_vars

\* an undo() was called on a session without history
C22_Witness ==
    lastOp = "undo" /\ opCount >= 1 /\ undo_stack = <<>> /\ redo_stack = <<>>

\* C27: whenever a handler has returned and the program goes on, the
\* restoring flag is false, also when set_state failed inside undo(),
\* redo() or restore_from_history()
C27_RestoringReleased == ~aborted => ~is_restoring

\* C23: after a project file in the uncompressed legacy form is loaded the
\* session is the one stored in the file: its registry and its pages
C23_LegacyProjectLoads ==
    [][(Stepped /\ lastOp' = "load_project" /\ ProjectFile(in_path') = "legacy") =>
          /\ LiveFiles(World)' = <<>>
          /\ Len(pages') = 1
          /\ pages'[1].rows = ProjectLayout(in_path')[1]
          /\ pages'[1].cols = ProjectLayout(in_path')[2]
          /\ pages'[1].traces = EmptyDict]_vars

\* C30: an import, a plot or a project load that ends with the session as
\* it was leaves the undo stack and the redo stack as they were
C30_NoChangeKeepsHistory ==
    [][(/\ Stepped
        /\ lastOp' \in {"import", "plot", "load_project"}
        /\ View(World)' = View(World))
          => undo_stack' = undo_stack /\ redo_stack' = redo_stack]_vars

\* C29: after an undo() that restored snapshot S, on every page and axis
\* the legend configuration LegendManager.get_config returns is the one
\* stored in S, and the link id XLinkManager.get_link_id returns is the one
\* stored in S
C29_RestoredManagersAgree ==
    [][(/\ Stepped /\ lastOp' = "undo" /\ undo_stack # <<>>
        /\ ~is_restoring' /\ ~aborted')
          => LET S == undo_stack[Len(undo_stack)].state
             IN  \A i \in 1..Len(S.pages) :
                    \A ax \in 0..(S.pages[i].rows * S.pages[i].cols - 1) :
                        /\ GetConfig(World, i, ax)' =
                               Get(legHeap'[S.pages[i].legend_cfgs], ax, DefaultLegendCfg)
                        /\ GetLinkId(linkHeap'[pages'[i].xlink_mgr], ax) =
                               GetLinkId(linkHeap'[S.pages[i].link_ids], ax)]_vars

\* the handlers of the user actions that change the session: plotting,
\* legend settings, X-link and unlink, trace delete, file remove, page add
\* and rename
MutatingOps == {"plot", "legend", "dm_xlink", "dm_unlink", "dm_delete",
                "dm_remove_file", "add_page", "rename"}

\* C17: every user action that changes the session runs a push() of its
\* own before it changes anything
C17_PushBeforeMutation ==
    [][(Stepped /\ lastOp' \in MutatingOps /\ View(World)' # View(World))
          => g_pushRan']_vars

(***************************************************************************)
(* SpecAxis: autoscale_axis and update_trace on a 2x1 page whose traces     *)
(* were added without explicit bounds                                       *)
(***************************************************************************)

\* traces on the page
MaxAxisTraces == 2

\* handlers run per behaviour
MaxAxisOps == 2

\* the samples of a trace: x and y of one length; A 0..10, B 5..20, one
\* constant sample, and a column without a finite value
AxisData == {[x |-> <<0, 10>>, y |-> <<0, 20>>],
             [x |-> <<5, 20>>, y |-> <<1, 21>>],
             [x |-> <<0 - 7>>, y |-> <<5>>],
             [x |-> <<NaN, NaN>>, y |-> <<NaN, 3>>]}

\* the settings a Trace Settings dialog returns: explicit x bounds 0..10,
\* a y factor 2.0, a y factor 0.1 with the x bounds set back to None, and
\* an x offset 2.5
AxisEdits ==
    {[yaxis |-> "left", ax_xmin |-> 0, ax_xmax |-> 10 * 100 * LUnit],
     [yaxis |-> "left", y_factor |-> 2 * FUnit],
     [yaxis |-> "left", y_factor |-> 1, ax_xmin |-> NoneNum, ax_xmax |-> NoneNum],
     [yaxis |-> "left", x_offset |-> 25]}

\* add_trace for each entry of specs, on page p
RECURSIVE AddTraces(_, _, _)
AddTraces(w, p, specs) ==
    IF specs = <<>> THEN w
    ELSE AddTraces(AddTrace(w, p, Head(specs).data.x, Head(specs).data.y,
                            "v", "a.csv", "v", "index", Head(specs).ax_idx),
                   p, Tail(specs))

\* the session after a 2x1 page was added and selected and traces were
\* added to it by add_trace alone (the Sync dialog), which sets no bounds
AxisInit ==
    /\ \E n \in 1..MaxAxisTraces :
         \E specs \in [1..n -> [data : AxisData, ax_idx : {0, 1}]] :
            \E w \in {AddTraces([AddPageDirect(InitWorld, 2, 1, TRUE) EXCEPT !.cur = 1],
                                2, specs)} :
                /\ file_data_map = w.file_data_map
                /\ current_file = w.current_file
                /\ pages = w.pages
                /\ cur = w.cur
                /\ undo_stack = w.undo_stack
                /\ redo_stack = w.redo_stack
                /\ is_restoring = w.is_restoring
                /\ fileHeap = w.fileHeap
                /\ linkHeap = w.linkHeap
                /\ legHeap = w.legHeap
                /\ uuid_cnt = w.uuid_cnt
    /\ dm_open = FALSE
    /\ aborted = FALSE
    /\ GhostInit /\ LinkIdle /\ AutoIdle /\ LegendIdle /\ InputIdle /\ UnitIdle

\* the traces of the current page on axis i, in dict order
OnAxis(i) ==
    LET pg == pages[CurrentPage(World)]
        order == SortedSeq({tid \in DOMAIN pg.traces : pg.traces[tid].ax_idx = i})
    IN  [k \in 1..Len(order) |-> pg.traces[order[k]]]

\* autoscale_axis(i) of the current page; the axis is recorded by its
\* traces and the direction by as_dir
AxisAutoscale ==
    /\ MainReady(MaxAxisOps)
    /\ \E i \in {0, 1} :
       \E w \in {AutoscaleAxis(World, CurrentPage(World), i, "both")} :
          /\ OnAxis(i) # <<>>
          /\ Handled("autoscale_axis", "plain", w)
          /\ pg_draws' = w.draws
          /\ as_traces' = OnAxis(i)
    /\ as_dir' = "both"
    /\ as_limits' = NoLimits
    /\ as_pc' = "done"
    /\ g_index' = NoIndex
    /\ UNCHANGED <<dm_open, linkVars, legendVars, inputVars, fhVars, xmVars>>
    /\ Untracked

\* edit_trace_by_id with the settings of the dialog; the draw() requests
\* of the handler are counted
AxisEdit ==
    /\ MainReady(MaxAxisOps)
    /\ \E tid \in DOMAIN pages[CurrentPage(World)].traces, s \in AxisEdits :
       \E w \in {EditTraceById(World, tid, s)} :
          /\ Handled("update_trace", "plain", w)
          /\ pg_draws' = w.draws
    /\ g_index' = NoIndex
    /\ UNCHANGED <<dm_open, linkVars, autoVars, legendVars, inputVars, fhVars, xmVars>>
    /\ Untracked

AxisNext == AxisAutoscale \/ AxisEdit

SpecAxis == AxisInit /\ [][AxisNext]_vars

\* the bound fields of trace t in direction d
BoundsOf(t, d) == IF d = "x" THEN <<t.ax_xmin, t.ax_xmax>> ELSE <<t.ax_ymin, t.ax_ymax>>

\* the step was autoscale_axis on the axis of the recorded traces
AxisAutoscaled == Stepped /\ lastOp' = "autoscale_axis"

\* C28 as stated: after autoscale_axis(i) every trace on axis i holds, per
\* direction, the pair calculated from the pool of all traces on axis i
\* (x ranges 0..10 and 5..20 give (-1, 25)), none of its bounds is null,
\* and the traces on other axes are as they were
C28_AutoscaleAxisFrame ==
    [][AxisAutoscaled =>
          LET pg == pages[CurrentPage(World)]
              pg2 == pages'[CurrentPage(World)]
          IN  \A tid \in DOMAIN pg.traces :
                 IF pg.traces[tid].ax_idx = as_traces'[1].ax_idx
                 THEN \A d \in {"x", "y"} :
                         /\ BoundsOf(pg2.traces[tid], d) = CalculateLimits(as_traces', d)
                         /\ BoundsOf(pg2.traces[tid], d)[1] # NoneNum
                         /\ BoundsOf(pg2.traces[tid], d)[2] # NoneNum
                 ELSE pg2.traces[tid] = pg.traces[tid]]_vars

\* C28 amended: the pair is written in every direction in which the pool
\* has a finite value; in a direction without one the bounds stay as they
\* were
C28_AutoscaleAxisFrameFinite ==
    [][AxisAutoscaled =>
          LET pg == pages[CurrentPage(World)]
              pg2 == pages'[CurrentPage(World)]
          IN  /\ \A tid \in DOMAIN pg.traces :
                    IF pg.traces[tid].ax_idx = as_traces'[1].ax_idx
                    THEN \A d \in {"x", "y"} :
                            IF PooledValues(as_traces', d) # {}
                            THEN /\ BoundsOf(pg2.traces[tid], d) = CalculateLimits(as_traces', d)
                                 /\ BoundsOf(pg2.traces[tid], d)[1] # NoneNum
                                 /\ BoundsOf(pg2.traces[tid], d)[2] # NoneNum
                            ELSE BoundsOf(pg2.traces[tid], d) = BoundsOf(pg.traces[tid], d)
                    ELSE pg2.traces[tid] = pg.traces[tid]
              /\ (/\ PooledValues(as_traces', "x") # {}
                  /\ SetMin(PooledValues(as_traces', "x")) = 0
                  /\ SetMax(PooledValues(as_traces', "x")) = 20 * FUnit * FUnit)
                    => CalculateLimits(as_traces', "x") =
                           <<0 - 1 * 100 * LUnit, 25 * 100 * LUnit>>]_vars

\* autoscale_axis ran on the axis that holds A (x 0..10) and B (x 5..20)
\* while the other axis holds a trace: both have the x bounds (-1, 25)
C28_Witness ==
    /\ lastOp = "autoscale_axis"
    /\ Len(as_traces) = 2
    /\ as_traces[1].raw_x = <<0, 10>> /\ as_traces[2].raw_x = <<5, 20>>
    /\ \A tid \in DOMAIN pages[2].traces :
          pages[2].traces[tid].ax_idx = 0 /\ pages[2].traces[tid].ax_xmin = 0 - 1 * 100 * LUnit
            /\ pages[2].traces[tid].ax_xmax = 25 * 100 * LUnit

\* C21: a completed edit of a trace has issued one redraw request on its
\* page, whatever it changed
C21_OneRedrawPerAction ==
    [][(Stepped /\ lastOp' = "update_trace" /\ ~aborted') => pg_draws' = 1]_vars

\* the factor, offset or transform mode of trace t differs from that of u
FactorChanged(t, u) ==
    \/ t.x_factor # u.x_factor \/ t.x_offset # u.x_offset
    \/ t.y_factor # u.y_factor \/ t.y_offset # u.y_offset
    \/ t.transform # u.transform

\* C26: when update_trace has changed the factor, offset or transform mode
\* of a trace, a direction whose explicit bounds on it are null afterwards
\* has been given the limits calculated from the traces of its axis (the
\* only way update_trace reaches the calculator is autoscale_axis, which
\* writes them into the bound fields), so the bounds are null only if the
\* pool has no finite value; a direction that had explicit bounds and still
\* has them has the same ones
C26_NullBoundAutoscaled ==
    [][(Stepped /\ lastOp' = "update_trace" /\ ~aborted') =>
          LET pg == pages[CurrentPage(World)]
              pg2 == pages'[CurrentPage(World)]
          IN  \A tid \in DOMAIN pg.traces :
                 FactorChanged(pg.traces[tid], pg2.traces[tid]) =>
                    \A d \in {"x", "y"} :
                       /\ BoundsOf(pg2.traces[tid], d) = <<NoneNum, NoneNum>> =>
                             PooledValues(OnAxis(pg.traces[tid].ax_idx)', d) = {}
                       /\ (/\ BoundsOf(pg.traces[tid], d) # <<NoneNum, NoneNum>>
                           /\ BoundsOf(pg2.traces[tid], d) # <<NoneNum, NoneNum>>)
                             => BoundsOf(pg2.traces[tid], d) = BoundsOf(pg.traces[tid], d)]_vars

(***************************************************************************)
(* SpecHistoryLog: FileHistoryManager from an empty fileLog.txt            *)
(***************************************************************************)

MaxLogOps == 5

\* the paths handed to add_entry; the empty one is a cancelled dialog
LogPaths == {"", "/p/a.splot", "/p/b.splot", "/p/c.splot", "/p/d.splot", "/p/e.splot"}

HistoryLogInit ==
    /\ SessionInit /\ GhostInit /\ LinkIdle /\ AutoIdle /\ LegendIdle /\ InputIdle
    /\ UnitIdle

\* add_entry(file_path); the clock of the timestamps is the count of calls
HistoryAddEntry ==
    /\ opCount < MaxLogOps
    /\ \E file_path \in LogPaths :
       \E fh \in {AddEntry([history |-> fh_history, log |-> fh_log], file_path, opCount + 1)} :
          /\ fh_history' = fh.history
          /\ fh_log' = fh.log
          /\ Inputs(<<>>, file_path, <<>>)
    /\ Handled("add_entry", "plain", World)
    /\ g_index' = NoIndex
    /\ UNCHANGED <<dm_open, linkVars, autoVars, legendVars, xmVars, pg_draws>>
    /\ Untracked

HistoryLogNext == HistoryAddEntry

SpecHistoryLog == HistoryLogInit /\ [][HistoryLogNext]_vars

\* the paths of a history, in order
HistoryPaths(history) == [i \in 1..Len(history) |-> history[i].path]

MaxGroupOps == 4

MaxGroupAxes == 3

GroupAxes == 0..(MaxGroupAxes - 1)

\* the lists of axes passed to create_group
GroupLists == {<<>>} \cup {<<a>> : a \in GroupAxes}
                  \cup {ab \in GroupAxes \X GroupAxes : ab[1] # ab[2]}

GroupsInit ==
    /\ SessionInit /\ GhostInit /\ LinkIdle /\ AutoIdle /\ LegendIdle /\ InputIdle
    /\ UnitIdle

Manager == [ids |-> xm_ids, groups |-> xm_groups, uuid |-> xm_uuid]

GroupsFrame ==
    /\ g_index' = NoIndex
    /\ UNCHANGED <<dm_open, linkVars, autoVars, legendVars, inputVars, fhVars, pg_draws>>
    /\ Untracked

\* create_group(ax_indices, link_id), link_id None or given
GroupsCreate ==
    /\ opCount < MaxGroupOps
    /\ \E ax_indices \in GroupLists, link_id \in {NoLink} \cup 1..MaxLinkIds :
       \E m \in {XmCreateGroup(Manager, ax_indices, link_id)} :
          /\ xm_ids' = m.ids /\ xm_groups' = m.groups /\ xm_uuid' = m.uuid
          /\ xm_arg' = ax_indices
    /\ Handled("create_group", "plain", World)
    /\ GroupsFrame

\* remove_from_group(ax_idx)
GroupsRemove ==
    /\ opCount < MaxGroupOps
    /\ \E ax_idx \in GroupAxes :
       \E m \in {XmRemoveFromGroup(Manager, ax_idx)} :
          /\ xm_ids' = m.ids /\ xm_groups' = m.groups /\ xm_uuid' = m.uuid
          /\ xm_arg' = <<ax_idx>>
    /\ Handled("remove_from_group", "plain", World)
    /\ GroupsFrame

GroupsNext == GroupsCreate \/ GroupsRemove

SpecGroups == GroupsInit /\ [][GroupsNext]_vars

\* the groups that hold axis a, and the axes of group k
GroupsOf(groups, a) ==
    {<<k, i>> \in (1..Len(groups)) \X (1..MaxGroupAxes) :
        i <= Len(groups[k]) /\ groups[k][i] = a}

\* C25: after create_group and after remove_from_group the groups are the
\* partition of the linked axes by link id: no group is empty, a group
\* holds linked axes only, every linked axis is at one place of one group,
\* and two axes are in one group exactly if they have the same link id (so
\* an axis that was linked again has left its old group); the axes passed
\* to create_group have one link id, and remove_from_group on an axis
\* without a link changes nothing
C25_GroupsArePartition ==
    [][(Stepped /\ lastOp' \in {"create_group", "remove_from_group"}) =>
          /\ \A k \in 1..Len(xm_groups') :
                /\ xm_groups'[k] # <<>>
                /\ \A i \in 1..Len(xm_groups'[k]) : xm_groups'[k][i] \in DOMAIN xm_ids'
          /\ \A a \in DOMAIN xm_ids' : Cardinality(GroupsOf(xm_groups', a)) = 1
          /\ \A a, b \in DOMAIN xm_ids' :
                (xm_ids'[a] = xm_ids'[b]) <=>
                    (\E k \in 1..Len(xm_groups') :
                        GroupsOf(xm_groups', a) \cup GroupsOf(xm_groups', b)
                            \subseteq {k} \X (1..MaxGroupAxes))
          /\ lastOp' = "create_group" =>
                \A i, j \in 1..Len(xm_arg') :
                    /\ xm_arg'[i] \in DOMAIN xm_ids'
                    /\ xm_ids'[xm_arg'[i]] = xm_ids'[xm_arg'[j]]
          /\ (lastOp' = "remove_from_group" /\ xm_arg'[1] \notin DOMAIN xm_ids) =>
                UNCHANGED <<xm_ids, xm_groups>>
          /\ lastOp' = "remove_from_group" => xm_arg'[1] \notin DOMAIN xm_ids']_vars

\* remove_from_group was called for an axis without a link while two axes
\* with different link ids are linked: two groups
C25_Witness ==
    /\ lastOp = "remove_from_group" /\ opCount >= 3
    /\ xm_arg[1] \notin DOMAIN xm_ids
    /\ Len(xm_groups) = 2
    /\ Cardinality(DOMAIN xm_ids) = 2

(***************************************************************************)
(* SpecLegend: LegendManager.apply_to_axes on the traces of one page.  A    *)
(* text is the sequence of its parts; a trace is listed in dict order       *)
(***************************************************************************)

\* traces on the page
MaxLegendTraces == 2

\* calls of apply_to_axes per configuration
MaxLegendApplies == 3

\* axes of the page: a 2x1 grid
LegendAxes == 0..1

\* trace labels (variable names) and file names; the second of each starts
\* with an underscore
LegendLabels == {"V", "_t"}

LegendFiles == {"a.csv", "_x.csv"}

\* str.startswith('_') on a text
StartsWithUnderscore(text) == text[1] \in {"_t", "_x.csv"}

\* content modes of the Legend Settings dialog
ContentModes == {"both", "label", "file", "none"}

\* no legend on the axis (get_legend() is None)
NoLegend == [shown |-> FALSE, entries |-> <<>>]

\* the label composed for trace t
FinalLabel(t, mode) ==
    IF mode = "file" THEN <<t.file>>
    ELSE IF mode = "both" THEN <<t.label, " @ ", t.file>>
    ELSE <<t.label>>

\* the lines of axis i that apply_to_axes handles: those of the left axis,
\* then those of its twin, without the lines whose label starts with '_'
LegendLines(traces, i) ==
    LET Left(k) == /\ traces[k].ax_idx = i /\ traces[k].yaxis = "left"
                   /\ ~StartsWithUnderscore(traces[k].line_label)
        Right(k) == /\ traces[k].ax_idx = i /\ traces[k].yaxis = "right"
                    /\ ~StartsWithUnderscore(traces[k].line_label)
        tids == [k \in 1..Len(traces) |-> k]
    IN  SelectSeq(tids, Left) \o SelectSeq(tids, Right)

\* apply_to_axes: the traces with the labels set on their lines, and the
\* legend of each axis.  ax.legend(lines, labs) lists every entry, or leaves
\* out a label that starts with '_', depending on the plotting library
ApplyToAxes(traces, configs, underscore_shown) ==
    LET Lines(i) == IF configs[i] = "none" THEN <<>> ELSE LegendLines(traces, i)
        Listed(e) == underscore_shown \/ ~StartsWithUnderscore(e.text)
        Entries(i) ==
            [n \in 1..Len(Lines(i)) |->
                [tid |-> Lines(i)[n],
                 text |-> FinalLabel(traces[Lines(i)[n]], configs[i])]]
        Handled_(k) == \E n \in 1..Len(Lines(traces[k].ax_idx)) :
                          Lines(traces[k].ax_idx)[n] = k
    IN  [traces |-> [k \in 1..Len(traces) |->
                        IF Handled_(k)
                        THEN [traces[k] EXCEPT
                                 !.line_label = FinalLabel(traces[k], configs[traces[k].ax_idx])]
                        ELSE traces[k]],
         legends |-> [i \in LegendAxes |->
                        IF Lines(i) = <<>> THEN NoLegend
                        ELSE [shown |-> TRUE, entries |-> SelectSeq(Entries(i), Listed)]]]

\* a page with traces as add_trace made them (the line labelled with the
\* trace label), a configuration per axis and no legend drawn yet
LegendInit ==
    /\ SessionInit /\ GhostInit /\ LinkIdle /\ AutoIdle /\ InputIdle /\ UnitIdle
    /\ \E n \in 1..MaxLegendTraces :
          lg_traces \in [1..n -> {[label |-> l, file |-> f, ax_idx |-> a, yaxis |-> y,
                                   line_label |-> <<l>>] :
                                     l \in LegendLabels, f \in LegendFiles,
                                     a \in LegendAxes, y \in {"left", "right"}}]
    /\ lg_configs \in [LegendAxes -> ContentModes]
    /\ lg_legends = [i \in LegendAxes |-> NoLegend]
    /\ lg_calls = 0
    /\ lg_shown \in BOOLEAN

\* add_legend
LegendApply ==
    /\ lg_calls < MaxLegendApplies
    /\ \E r \in {ApplyToAxes(lg_traces, lg_configs, lg_shown)} :
          /\ lg_traces' = r.traces
          /\ lg_legends' = r.legends
    /\ lg_calls' = lg_calls + 1
    /\ UNCHANGED <<lg_configs, lg_shown, progVars, ghostVars, linkVars, autoVars, inputVars, unitVars>>

LegendNext == LegendApply

SpecLegend == LegendInit /\ [][LegendNext]_vars

\* what a legend lists: the traces and their labels
LegendListed(legend) == {legend.entries[n] : n \in 1..Len(legend.entries)}

\* C15: apply_to_axes called again with the same configuration lists the
\* same traces with the same labels as the call before
C15_LegendIdempotent ==
    [][(lg_calls >= 1 /\ lg_calls' = lg_calls + 1) =>
          \A i \in LegendAxes : LegendListed(lg_legends'[i]) = LegendListed(lg_legends[i])]_vars

\* C16: every trace on an axis or its twin is listed with "<label> @ <file>"
\* in mode both, its label in mode label and its file name in mode file;
\* in mode none the axis has no legend
C16_LegendComposition ==
    lg_calls >= 1 =>
        \A i \in LegendAxes :
            IF lg_configs[i] = "none" THEN lg_legends[i] = NoLegend
            ELSE \A k \in 1..Len(lg_traces) :
                    lg_traces[k].ax_idx = i =>
                        [tid |-> k,
                         text |-> CASE lg_configs[i] = "both" ->
                                         <<lg_traces[k].label, " @ ", lg_traces[k].file>>
                                    [] lg_configs[i] = "file" -> <<lg_traces[k].file>>
                                    [] OTHER -> <<lg_traces[k].label>>]
                            \in LegendListed(lg_legends[i])

====
